---- MODULE Spec2Model ----
(***************************************************************************)
(* A model of the OptionStratLib core: the Positive scalar                 *)
(* (src/src/model/positive.rs), the straddle strategies                    *)
(* (src/src/strategies/straddle.rs) with their chain optimizer, the long   *)
(* butterfly spread (src/src/strategies/butterfly_spread.rs) and the       *)
(* surfaces (src/src/surfaces/surface.rs).                                 *)
(*                                                                         *)
(* Decimal values are modelled as integers.  In the Positive part an       *)
(* integer n stands for the decimal n.  In the strategy part money         *)
(* amounts (strikes, premiums, fees, break-even points) count hundredths,  *)
(* the resolution that round_to(2) keeps, and quantities count contracts.  *)
(* Implied volatilities count whole units, so Positive::ONE is 1 there.    *)
(* The scores of the optimizer, f64 values in the code, are kept as exact  *)
(* fractions and compared by cross multiplication.  A panic is an outcome  *)
(* after which the panicking part takes no further step.                   *)
(***************************************************************************)
EXTENDS Integers, Sequences, FiniteSets, TLC

VARIABLES
    pval,               \* Positive(pub(crate) Decimal): the wrapped decimal
    pres,               \* the last Positive operation: its path, operands and outcome
    strategy,           \* the strategy: kind, its legs, the cached break-even points
    last,               \* the last strategy operation and its outcome
    search,             \* the optimizer's call: chain, side, criteria, the strategy before it
    request,            \* the last constructor or profit call: its arguments and its result
    surface,            \* the surface: its points and the cached x and y ranges
    answer,             \* the last surface call: its arguments and its result
    original,           \* the Positive handed to the serializer: mantissa and scale
    json                \* the JSON text written for it and what reading it back gave

posVars == <<pval, pres>>
stratVars == <<strategy, last, search, request>>
surfVars == <<surface, answer>>
jsonVars == <<original, json>>

vars == <<pval, pres, strategy, last, search, request, surface, answer, original, json>>

(***************************************************************************)
(* Bounds of the model.                                                    *)
(***************************************************************************)
MaxVal == 3
MaxAbs == 5
MaxStrike == 2
MaxQuantity == 2
MaxPremium == 1
MaxRows == 2
MaxQuote == 1
MaxVolatility == 2
MaxExpiration == 2
MaxPositions == 3
MaxButterflyStrike == 5
MaxDelta == 1
MaxChainRows == 4
MaxCoord == 2
MaxZ == 4
MergeSteps == 50
MaxScale == 2
MaxMantissa == 130
I64Max == 1000
F64Digits == 2

(***************************************************************************)
(* The surface and the serializer parts before any call to them.           *)
(***************************************************************************)
\* no surface has been constructed
NoSurface == [points |-> {}, x_range |-> <<0, 0>>, y_range |-> <<0, 0>>]

\* no Positive has been handed to the serializer, and nothing was written
NoPositive == [mantissa |-> 0, scale |-> 0]

NoJson == [stage |-> "none", outcome |-> "Ok", text |-> [kind |-> "none", x |-> 0], v |-> 0]

\* no surface call has been made
NoFunction == [fails |-> {}, z |-> "one"]

NoParams == [shape |-> "D2", x_start |-> 0, x_end |-> 0, y_start |-> 0, y_end |-> 0, x_steps |-> 0, y_steps |-> 0]

NoAnswer ==
    [op |-> "none", outcome |-> "Ok", reason |-> "", f |-> NoFunction, params |-> NoParams,
     xy |-> [x |-> 0, y |-> 0], z |-> <<0, 1>>, surfaces |-> <<>>, x_range |-> <<0, 0>>, y_range |-> <<0, 0>>]

(***************************************************************************)
(* Positive: src/src/model/positive.rs                                     *)
(***************************************************************************)

\* Positive::INFINITY = Positive(Decimal::MAX); the model uses a stand-in far
\* above every other value it can build.
DecimalMax == 1000000

\* An input value is a record [k, v]: k = "num" is the finite number v, the
\* other kinds are NaN, a signed infinity (v = 1 or -1) and texts.
Num(n) == [k |-> "num", v |-> n]
F64NaN == [k |-> "nan", v |-> 0]
F64Inf(sign) == [k |-> "inf", v |-> sign]
Text(t) == [k |-> t, v |-> 0]

\* f64 inputs: a finite number, NaN, or a signed infinity.
F64Inputs == {Num(n) : n \in -MaxVal..MaxVal} \cup {F64NaN, F64Inf(1), F64Inf(-1)}

\* Decimal inputs.
DecimalInputs == -MaxVal..MaxVal

\* Text inputs of from_str: a text that parses as a Decimal, or one that does not.
StrInputs == {Num(n) : n \in -MaxVal..MaxVal} \cup {Text("infinity"), Text("abc")}

\* JSON tokens handed to the visitor by deserialize_any: the visitor method
\* and its argument.
JsonInputs ==
    {[t |-> "visit_i64", x |-> Num(n)] : n \in -MaxVal..MaxVal}
        \cup {[t |-> "visit_u64", x |-> Num(n)] : n \in 0..MaxVal}
        \cup {[t |-> "visit_f64", x |-> x] : x \in F64Inputs}
        \cup {[t |-> "visit_str", x |-> Text(w)] : w \in {"infinity", "INFINITY", "abc"}}

POk(v) == [outcome |-> "Ok", v |-> v]
PErr == [outcome |-> "Err", v |-> 0]
PPanic(msg) == [outcome |-> msg, v |-> 0]

PanicValueMustBePositive == "panic: Value must be positive"
PanicResultingValue == "panic: Resulting value must be positive"

IsPanic(outcome) == outcome \notin {"Ok", "Err"}

\* Decimal::from_f64: None for NaN and the infinities.
Decimal_from_f64(x) == IF x.k = "num" THEN [some |-> TRUE, v |-> x.v] ELSE [some |-> FALSE, v |-> 0]

\* Positive::new(value: f64)
Positive_new(x) ==
    LET dec == Decimal_from_f64(x)
    IN  IF dec.some /\ dec.v >= 0 THEN POk(dec.v) ELSE PErr

\* Positive::new_decimal(value: Decimal)
Positive_new_decimal(d) == IF d >= 0 THEN POk(d) ELSE PErr

\* .expect("Value must be positive") on a constructor's result
Expect(r) == IF r.outcome = "Ok" THEN r ELSE PPanic(PanicValueMustBePositive)

\* impl FromStr for Positive
Positive_from_str(s) ==
    IF s.k = "num" /\ s.v > 0 THEN POk(s.v) ELSE PErr

\* impl From<f64> for Positive
Positive_from_f64(x) == Expect(Positive_new(x))

\* impl From<Decimal> for Positive
Positive_from_decimal(d) == Expect(Positive_new_decimal(d))

\* PositiveVisitor::visit_str
visit_str(s) == IF s.k \in {"infinity", "INFINITY"} THEN POk(DecimalMax) ELSE PErr

\* PositiveVisitor::visit_i64
visit_i64(n) == IF n.v < 0 THEN PErr ELSE Positive_new_decimal(n.v)

\* PositiveVisitor::visit_u64
visit_u64(n) == Positive_new_decimal(n.v)

\* PositiveVisitor::visit_f64
visit_f64(x) ==
    IF x.k = "inf" /\ x.v > 0 THEN POk(DecimalMax)
    ELSE LET dec == Decimal_from_f64(x)
         IN  IF ~dec.some THEN PErr
             ELSE IF x.v < 0 THEN PErr
             ELSE Positive_new_decimal(dec.v)

\* impl Deserialize for Positive: deserialize_any dispatches on the token
Positive_deserialize(j) ==
    CASE j.t = "visit_str" -> visit_str(j.x)
      [] j.t = "visit_i64" -> visit_i64(j.x)
      [] j.t = "visit_u64" -> visit_u64(j.x)
      [] j.t = "visit_f64" -> visit_f64(j.x)

\* impl Sub for Positive
Positive_sub(a, b) ==
    LET result == a - b
    IN  IF result < 0 THEN PPanic(PanicResultingValue) ELSE POk(result)

\* impl Sub<Decimal> for Positive
Positive_sub_decimal(a, d) == POk(a - d)

\* impl Sub<&Decimal> for Positive
Positive_sub_decimal_ref(a, d) == Positive_from_decimal(a - d)

\* impl Sub<f64> for Positive
Positive_sub_f64(a, x) ==
    Positive_from_f64(CASE x.k = "num" -> Num(a - x.v)
                        [] x.k = "nan" -> F64NaN
                        [] x.k = "inf" -> F64Inf(0 - x.v))


(***************************************************************************)
(* Position: an option contract with premium and fees.  The implementation *)
(* of Position is not part of the sources at hand; what the strategies use *)
(* of it is modelled from the specification and pinned by the tests of     *)
(* straddle.rs (test_total_cost, test_net_premium_received,                *)
(* test_long_straddle_new).                                                *)
(***************************************************************************)

\* Position::new over Options::new; the named constructors of the strategies
\* give one expiration to every leg, here day 1.
Position(style, side, strike, quantity, premium, open_fee, close_fee, underlying) ==
    [option_style |-> style, side |-> side, strike_price |-> strike,
     quantity |-> quantity, premium |-> premium, open_fee |-> open_fee,
     close_fee |-> close_fee, underlying_price |-> underlying,
     expiration_date |-> 1]

\* Position::pnl_at_expiration(&Some(price)): the intrinsic value at the
\* price, minus the open and close fees, plus the premium for a short leg and
\* minus it for a long one, times the quantity.
pnl_at_expiration(p, price) ==
    LET intrinsic == IF p.option_style = "Call"
                     THEN (IF price > p.strike_price THEN price - p.strike_price ELSE 0)
                     ELSE (IF p.strike_price > price THEN p.strike_price - price ELSE 0)
    IN  IF p.side = "Long"
        THEN (intrinsic - p.premium - p.open_fee - p.close_fee) * p.quantity
        ELSE (p.premium - intrinsic - p.open_fee - p.close_fee) * p.quantity

\* Options::validate: a strike above zero and a quantity above zero.
Options_validate(p) == p.strike_price > 0 /\ p.quantity > 0

\* Position::validate: premium >= 0, fees >= 0, and the option is valid.
Position_validate(p) ==
    /\ p.premium >= 0
    /\ p.open_fee >= 0
    /\ p.close_fee >= 0
    /\ Options_validate(p)

\* Position::net_premium_received of a short leg: (premium - fees) x quantity,
\* a Positive, so a negative difference trips the subtraction guard.
Position_net_premium_received(p) ==
    IF p.side = "Short"
    THEN Positive_sub(p.premium * p.quantity, (p.open_fee + p.close_fee) * p.quantity)
    ELSE POk(0)

\* Position::net_cost of a long leg: (premium + fees) x quantity; a short leg
\* costs its fees.
Position_net_cost(p) ==
    IF p.side = "Long"
    THEN (p.premium + p.open_fee + p.close_fee) * p.quantity
    ELSE (p.open_fee + p.close_fee) * p.quantity

\* Strategies::net_premium_received: the sum over the legs.
net_premium_received(s) ==
    LET c == Position_net_premium_received(s.call)
        q == Position_net_premium_received(s.put)
    IN  IF c.outcome # "Ok" THEN c
        ELSE IF q.outcome # "Ok" THEN q
        ELSE POk(c.v + q.v)

\* Strategies::total_cost: the sum over the legs.
total_cost(s) == POk(Position_net_cost(s.call) + Position_net_cost(s.put))

(***************************************************************************)
(* Decimal arithmetic on hundredths.                                       *)
(***************************************************************************)

PanicDivisionByZero == "panic: Division by zero"

\* Decimal::round_dp(2) of the exact quotient num / den (den > 0), in
\* hundredths: round half to even.
RoundDp(num, den) ==
    LET q == num \div den
        r == num % den
    IN  IF 2 * r < den THEN q
        ELSE IF 2 * r > den THEN q + 1
        ELSE IF q % 2 = 0 THEN q ELSE q + 1

\* Vec::sort of two break-even points
Sort2(a, b) == IF a <= b THEN <<a, b>> ELSE <<b, a>>

(***************************************************************************)
(* ShortStraddle and LongStraddle: src/src/strategies/straddle.rs          *)
(***************************************************************************)

SOk(s) == [outcome |-> "Ok", s |-> s]
SErr(s) == [outcome |-> "Err", s |-> s]
SPanic(msg, s) == [outcome |-> msg, s |-> s]

\* The side every leg of the strategy is meant to have.
StrategySide(kind) == IF kind = "ShortStraddle" THEN "Short" ELSE "Long"

\* ShortStraddle::update_break_even_points
ShortStraddle_update_break_even_points(s) ==
    LET cleared == [s EXCEPT !.break_even_points = <<>>]
        tp == net_premium_received(s)
    IN  IF tp.outcome # "Ok" THEN SPanic(tp.outcome, cleared)
        ELSE IF s.put.quantity = 0 THEN SPanic(PanicDivisionByZero, cleared)
        ELSE LET lower == RoundDp(s.put.strike_price * s.put.quantity - tp.v, s.put.quantity)
             IN  IF s.call.quantity = 0
                 THEN SPanic(PanicDivisionByZero, [s EXCEPT !.break_even_points = <<lower>>])
                 ELSE LET upper == RoundDp(s.call.strike_price * s.call.quantity + tp.v,
                                           s.call.quantity)
                      IN  SOk([s EXCEPT !.break_even_points = Sort2(lower, upper)])

\* LongStraddle::update_break_even_points
LongStraddle_update_break_even_points(s) ==
    LET cleared == [s EXCEPT !.break_even_points = <<>>]
        tc == total_cost(s)
    IN  IF s.put.quantity = 0 THEN SPanic(PanicDivisionByZero, cleared)
        ELSE IF s.put.strike_price * s.put.quantity - tc.v < 0
        THEN SPanic(PanicResultingValue, cleared)
        ELSE LET lower == RoundDp(s.put.strike_price * s.put.quantity - tc.v, s.put.quantity)
             IN  IF s.call.quantity = 0
                 THEN SPanic(PanicDivisionByZero, [s EXCEPT !.break_even_points = <<lower>>])
                 ELSE LET upper == RoundDp(s.call.strike_price * s.call.quantity + tc.v,
                                           s.call.quantity)
                      IN  SOk([s EXCEPT !.break_even_points = Sort2(lower, upper)])

update_break_even_points(s) ==
    IF s.kind = "ShortStraddle"
    THEN ShortStraddle_update_break_even_points(s)
    ELSE LongStraddle_update_break_even_points(s)

\* BreakEvenable::get_break_even_points: the cached list
get_break_even_points(s) == s.break_even_points

\* ShortStraddle::add_position and LongStraddle::add_position: the slot is
\* chosen by the option style alone.
add_position(s, p) ==
    IF p.option_style = "Call"
    THEN SOk([s EXCEPT !.call = p])
    ELSE SOk([s EXCEPT !.put = p])

\* ShortStraddle::modify_position and LongStraddle::modify_position
modify_position(s, p) ==
    IF ~Position_validate(p) THEN SErr(s)
    ELSE IF p.side # StrategySide(s.kind) THEN SErr(s)
    ELSE IF /\ p.strike_price # s.call.strike_price
            /\ p.strike_price # s.put.strike_price
    THEN SErr(s)
    ELSE LET s1 == IF p.option_style = "Call" THEN [s EXCEPT !.call = p] ELSE s
             s2 == IF p.option_style = "Put" THEN [s1 EXCEPT !.put = p] ELSE s1
         IN  SOk(s2)

\* ShortStraddle::get_position and LongStraddle::get_position: the slot is
\* found by the side of the strategy, the requested style and the strike the
\* slot holds.
get_position(s, option_style, side, strike) ==
    IF side # StrategySide(s.kind) THEN [outcome |-> "Err", slot |-> "none"]
    ELSE IF option_style = "Call" /\ strike = s.call.strike_price
    THEN [outcome |-> "Ok", slot |-> "call"]
    ELSE IF option_style = "Put" /\ strike = s.put.strike_price
    THEN [outcome |-> "Ok", slot |-> "put"]
    ELSE [outcome |-> "Err", slot |-> "none"]

\* adjust_option_position (the delta-neutrality module is not part of the
\* sources at hand): the quantity is added to the leg get_position finds.
adjust_option_position(s, quantity, strike, option_style, side) ==
    LET found == get_position(s, option_style, side, strike)
    IN  IF found.outcome # "Ok" THEN SErr(s)
        ELSE IF found.slot = "call"
        THEN SOk([s EXCEPT !.call.quantity = @ + quantity])
        ELSE SOk([s EXCEPT !.put.quantity = @ + quantity])

\* ShortStraddle::validate and LongStraddle::validate
validate(s) ==
    /\ Position_validate(s.call)
    /\ Position_validate(s.put)
    /\ s.call.strike_price = s.put.strike_price

\* ShortStraddle::new and LongStraddle::new
Straddle_new(kind, underlying_price, strike0, quantity, premium_call, premium_put, open_fee_call, close_fee_call, open_fee_put, close_fee_put) ==
    LET strike == IF strike0 = 0 THEN underlying_price ELSE strike0
        side == StrategySide(kind)
        s0 == [kind |-> kind,
               call |-> Position("Call", side, 0, 0, 0, 0, 0, 0),
               put |-> Position("Put", side, 0, 0, 0, 0, 0, 0),
               break_even_points |-> <<>>]
        s1 == add_position(s0, Position("Call", side, strike, quantity, premium_call,
                                        open_fee_call, close_fee_call, underlying_price)).s
        s2 == add_position(s1, Position("Put", side, strike, quantity, premium_put,
                                        open_fee_put, close_fee_put, underlying_price)).s
    IN  update_break_even_points(s2)

(***************************************************************************)
(* The strategy under a caller's add_position, modify_position and         *)
(* update_break_even_points calls.                                         *)
(***************************************************************************)

Kinds == {"ShortStraddle", "LongStraddle"}
Styles == {"Call", "Put"}
Sides == {"Long", "Short"}

\* The underlying price of the positions a caller passes in.
Underlying == MaxStrike

PositionInputs ==
    {Position(st, sd, k, q, pr, 0, 0, Underlying) :
        st \in Styles, sd \in Sides, k \in 1..MaxStrike, q \in 0..MaxQuantity,
        pr \in 0..MaxPremium}

StratAlive == last.outcome \in {"Ok", "Err"}

StratStep(op, r) ==
    /\ StratAlive
    /\ strategy' = r.s
    /\ last' = [op |-> op, outcome |-> r.outcome]

AddPosition(p) == StratStep("add_position", add_position(strategy, p))

ModifyPosition(p) == StratStep("modify_position", modify_position(strategy, p))

UpdateBreakEvenPoints ==
    StratStep("update_break_even_points", update_break_even_points(strategy))


(***************************************************************************)
(* OptionChain rows.  OptionChain and OptionData are not part of the       *)
(* sources at hand; the optimizer's use of them is modelled from the       *)
(* specification.                                                          *)
(***************************************************************************)

None == [some |-> FALSE, v |-> 0]
Some(x) == [some |-> TRUE, v |-> x]

\* Option::unwrap_or
unwrap_or(o, default) == IF o.some THEN o.v ELSE default

OptionData(strike, call_bid, call_ask, put_bid, put_ask, iv) ==
    [strike_price |-> strike, call_bid |-> call_bid, call_ask |-> call_ask,
     put_bid |-> put_bid, put_ask |-> put_ask, implied_volatility |-> iv]

\* OptionData::validate: a strike above zero, an implied volatility and the
\* quotes of both the call and the put.
OptionData_validate(row) ==
    /\ row.strike_price > 0
    /\ row.implied_volatility.some
    /\ row.call_bid.some /\ row.call_ask.some
    /\ row.put_bid.some /\ row.put_ask.some

SideAll == [t |-> "All", a |-> 0, b |-> 0]
SideUpper == [t |-> "Upper", a |-> 0, b |-> 0]
SideLower == [t |-> "Lower", a |-> 0, b |-> 0]
SideCenter == [t |-> "Center", a |-> 0, b |-> 0]
SideRange(a, b) == [t |-> "Range", a |-> a, b |-> b]

\* OptionData::is_valid_optimal_side: Upper = strike >= S, Lower = strike <= S,
\* Range = within [a, b].  Center is resolved by the caller into a Range.
is_valid_optimal_side(row, underlying_price, side) ==
    CASE side.t = "All" -> TRUE
      [] side.t = "Upper" -> row.strike_price >= underlying_price
      [] side.t = "Lower" -> row.strike_price <= underlying_price
      [] side.t = "Range" -> side.a <= row.strike_price /\ row.strike_price <= side.b

Abs(x) == IF x < 0 THEN 0 - x ELSE x

\* OptionChain::atm_strike: the strike closest to the underlying price, the
\* first such in strike order; an error on an empty chain.
atm_strike(chain) ==
    IF Len(chain.options) = 0 THEN PErr
    ELSE LET near(i) == Abs(chain.options[i].strike_price - chain.underlying_price)
             best == CHOOSE i \in 1..Len(chain.options) :
                         \A j \in 1..Len(chain.options) :
                             near(i) < near(j) \/ (near(i) = near(j) /\ i <= j)
         IN  POk(chain.options[best].strike_price)

(***************************************************************************)
(* The optimizer of ShortStraddle: src/src/strategies/straddle.rs          *)
(***************************************************************************)

PanicInvalidCall == "panic: Invalid Call option"
PanicInvalidPut == "panic: Invalid Put option"
PanicUnwrapNone == "panic: called Option::unwrap() on a None value"
PanicVolatilityAssert == "panic: assertion failed: implied_volatility <= Positive::ONE"

\* Positive::ONE, on the scale of the implied volatilities
Positive_ONE == 1

\* ShortStraddle::get_underlying_price
get_underlying_price(s) == s.call.underlying_price

\* ShortStraddle::max_profit
max_profit(s) ==
    LET npr == net_premium_received(s)
    IN  IF npr.outcome # "Ok" THEN npr
        ELSE IF npr.v < 0 THEN PErr
        ELSE POk(npr.v)

\* ShortStraddle::max_loss
max_loss(s) == POk(DecimalMax)

\* A score: the f64 the criterion computes, kept as the exact fraction n / d.
ScoreOk(n, d) == [outcome |-> "Ok", n |-> n, d |-> d]
ScorePanic(msg) == [outcome |-> msg, n |-> 0, d |-> 1]

\* Decimal::MIN, the best value before the first candidate
DecimalMin == [outcome |-> "Ok", n |-> 0 - DecimalMax, d |-> 1]

\* ShortStraddle::profit_ratio: max_profit / (be[1] - be[0]) * 100; a zero
\* difference gives an infinite or NaN f64, for which Decimal::from_f64 is
\* None and the unwrap panics.
profit_ratio(s) ==
    LET diff == Positive_sub(s.break_even_points[2], s.break_even_points[1])
        mp == max_profit(s)
    IN  IF diff.outcome # "Ok" THEN ScorePanic(diff.outcome)
        ELSE IF IsPanic(mp.outcome) THEN ScorePanic(mp.outcome)
        ELSE IF diff.v = 0 THEN ScorePanic(PanicUnwrapNone)
        ELSE ScoreOk((IF mp.outcome = "Ok" THEN mp.v ELSE 0) * 100, diff.v)

\* 10^ceil(log10(cat)) for cat = diff / sqrt(2), diff in hundredths: the least
\* power of ten p, itself in hundredths, with cat <= p, that is diff^2 <= 2 p^2.
RECURSIVE PowerOfTenAbove(_, _)
PowerOfTenAbove(diff, p) ==
    IF diff * diff <= 2 * p * p THEN p ELSE PowerOfTenAbove(diff, 10 * p)

\* ShortStraddle::profit_area: cat^2 / (2 * 10^ceil(log10(cat))) with
\* cat = (be[1] - be[0]) / sqrt(2); a zero difference gives NaN and the unwrap
\* panics.  In hundredths the area is diff^2 / (400 p).
profit_area(s) ==
    LET diff == Positive_sub(s.break_even_points[2], s.break_even_points[1])
    IN  IF diff.outcome # "Ok" THEN ScorePanic(diff.outcome)
        ELSE IF diff.v = 0 THEN ScorePanic(PanicUnwrapNone)
        ELSE ScoreOk(diff.v * diff.v, 400 * PowerOfTenAbove(diff.v, 1))

\* current_value >= best_value
ScoreGreaterOrEqual(value, best_value) ==
    IF best_value = DecimalMin THEN TRUE
    ELSE value.n * best_value.d >= best_value.n * value.d

\* current_value > best_value: every score is above Decimal::MIN, two scores
\* compare as fractions.
ScoreGreater(value, best_value) ==
    IF best_value = DecimalMin THEN value # DecimalMin
    ELSE value.n * best_value.d > best_value.n * value.d

\* A create_strategy that hands on one contract more than self holds, so that
\* what an iteration writes into self shows in the next candidate.
create_strategy_accumulating(self, chain, row) ==
    IF ~OptionData_validate(row) THEN SPanic(PanicInvalidCall, self)
    ELSE IF ~row.implied_volatility.some THEN SPanic(PanicUnwrapNone, self)
    ELSE IF ~(row.implied_volatility.v <= Positive_ONE)
    THEN SPanic(PanicVolatilityAssert, self)
    ELSE IF ~row.call_bid.some \/ ~row.put_bid.some THEN SPanic(PanicUnwrapNone, self)
    ELSE Straddle_new("ShortStraddle", chain.underlying_price, row.strike_price, self.call.quantity + 1, row.call_bid.v, row.put_bid.v, self.call.open_fee, self.call.close_fee, self.put.open_fee, self.put.close_fee)

\* ShortStraddle::create_strategy on TwoLegs { first: row, second: row }
create_strategy(self, chain, row) ==
    IF ~OptionData_validate(row) THEN SPanic(PanicInvalidCall, self)
    ELSE IF ~row.implied_volatility.some THEN SPanic(PanicUnwrapNone, self)
    ELSE IF ~(row.implied_volatility.v <= Positive_ONE)
    THEN SPanic(PanicVolatilityAssert, self)
    ELSE IF ~row.call_bid.some \/ ~row.put_bid.some THEN SPanic(PanicUnwrapNone, self)
    ELSE Straddle_new("ShortStraddle", chain.underlying_price, row.strike_price, self.call.quantity, row.call_bid.v, row.put_bid.v, self.call.open_fee, self.call.close_fee, self.put.open_fee, self.put.close_fee)

\* ShortStraddle::filter_combinations, for one row of get_single_iter: "keep",
\* "drop", or the panic the candidate's construction ends in.
filter_combinations(self, chain, side, row) ==
    LET underlying_price == get_underlying_price(self)
        atm == atm_strike(chain)
        in_side ==
            IF side.t = "Center"
            THEN IF atm.outcome # "Ok" THEN FALSE
                 ELSE is_valid_optimal_side(row, underlying_price, SideRange(atm.v, atm.v))
            ELSE is_valid_optimal_side(row, underlying_price, side)
        candidate == create_strategy(self, chain, row)
    IN  IF ~in_side THEN "drop"
        ELSE IF ~(unwrap_or(row.call_ask, 0) > 0 /\ unwrap_or(row.put_ask, 0) > 0)
        THEN "drop"
        ELSE IF candidate.outcome # "Ok" THEN candidate.outcome
        ELSE IF ~validate(candidate.s) THEN "drop"
        ELSE IF IsPanic(max_profit(candidate.s).outcome) THEN max_profit(candidate.s).outcome
        ELSE IF max_profit(candidate.s).outcome = "Ok" /\ max_loss(candidate.s).outcome = "Ok"
        THEN "keep"
        ELSE "drop"

\* The score of a candidate under the optimization criteria
current_value(s, criteria) ==
    IF criteria = "Ratio" THEN profit_ratio(s) ELSE profit_area(s)

\* The loop of ShortStraddle::find_optimal from row i on: the iterator is lazy,
\* so each row is filtered (against the clone taken before the loop) right
\* before the loop body runs on it.
RECURSIVE find_optimal_loop(_, _, _, _, _, _, _)
find_optimal_loop(self, strategy_clone, chain, side, criteria, i, best_value) ==
    IF i > Len(chain.options) THEN SOk(self)
    ELSE LET row == chain.options[i]
             kept == filter_combinations(strategy_clone, chain, side, row)
             created == create_strategy(self, chain, row)
             value == current_value(created.s, criteria)
         IN  IF kept = "drop"
             THEN find_optimal_loop(self, strategy_clone, chain, side, criteria, i + 1, best_value)
             ELSE IF kept # "keep" THEN SPanic(kept, self)
             ELSE IF created.outcome # "Ok" THEN SPanic(created.outcome, self)
             ELSE IF value.outcome # "Ok" THEN SPanic(value.outcome, self)
             ELSE IF ScoreGreater(value, best_value)
             THEN find_optimal_loop(created.s, strategy_clone, chain, side, criteria, i + 1, value)
             ELSE find_optimal_loop(self, strategy_clone, chain, side, criteria, i + 1, best_value)

\* ShortStraddle::find_optimal
find_optimal(self, chain, side, criteria) ==
    find_optimal_loop(self, self, chain, side, criteria, 1, DecimalMin)

(***************************************************************************)
(* The optimizer under a caller's find_optimal calls on a given chain.     *)
(***************************************************************************)

Quotes == {None} \cup {Some(q) : q \in 0..MaxQuote}
\* A missing ask counts as zero in the filter (unwrap_or), so the asks are given.
AskQuotes == {Some(q) : q \in 0..MaxQuote}
Volatilities == {None} \cup {Some(v) : v \in 1..MaxVolatility}

OptionDataInputs ==
    {OptionData(k, cb, ca, pb, pa, iv) :
        k \in 1..MaxStrike, cb \in Quotes, ca \in AskQuotes, pb \in Quotes, pa \in AskQuotes,
        iv \in Volatilities}

\* The chain keeps its rows keyed and ordered by strike.
ChainInputs ==
    {[underlying_price |-> Underlying, options |-> rows] :
        rows \in {r \in UNION {[1..n -> OptionDataInputs] : n \in 0..MaxRows} :
                     \A i \in 1..Len(r) - 1 : r[i].strike_price < r[i + 1].strike_price}}

SideInputs ==
    {SideAll, SideUpper, SideLower, SideCenter}
        \cup UNION {{SideRange(a, b) : b \in a..MaxStrike} : a \in 1..MaxStrike}

CriteriaInputs == {"Ratio", "Area"}

NoSearch == [chain |-> [underlying_price |-> Underlying, options |-> <<>>],
             side |-> SideAll, criteria |-> "Ratio", before |-> <<>>]

\* No constructor or profit call is on record.
NoRequest == [kind |-> "None", positions |-> <<>>, price |-> 0, profit |-> 0]

FindOptimal ==
    LET r == find_optimal(strategy, search.chain, search.side, search.criteria)
    IN  /\ StratAlive
        /\ strategy.kind = "ShortStraddle"
        /\ strategy' = r.s
        /\ last' = [op |-> "find_optimal", outcome |-> r.outcome]
        /\ search' = [search EXCEPT !.before = strategy]

InitOptimal ==
    /\ pval = 0
    /\ pres = [op |-> "default", arg |-> Num(0), before |-> 0, outcome |-> "Ok"]
    /\ \E q \in 1..MaxQuantity :
          LET r == Straddle_new("ShortStraddle", Underlying, 0, q, 0, 0, 0, 0, 0, 0)
          IN  r.outcome = "Ok" /\ strategy = r.s
    /\ last = [op |-> "new", outcome |-> "Ok"]
    /\ \E chain \in ChainInputs, side \in SideInputs, criteria \in CriteriaInputs :
          search = [chain |-> chain, side |-> side, criteria |-> criteria,
                    before |-> strategy]
    /\ request = NoRequest
    /\ surface = NoSurface
    /\ answer = NoAnswer
    /\ original = NoPositive
    /\ json = NoJson

NextOptimal == FindOptimal /\ UNCHANGED <<posVars, surfVars, jsonVars, request>>

SpecOptimal == InitOptimal /\ [][NextOptimal]_vars

(***************************************************************************)
(* The optimizer of CallButterfly: src/src/strategies/call_butterfly.rs    *)
(* PositiveF64 is not part of the sources at hand; its operators are taken *)
(* to compute on the wrapped f64.  An f64 is kept as an exact fraction, or *)
(* as one of the infinities or NaN.                                        *)
(***************************************************************************)

PanicInvalidOptions == "panic: Invalid options"
PanicInvalidStrategy == "panic: Invalid strategy"
PanicSubtractOverflow == "panic: attempt to subtract with overflow"
PanicIndexPastTheEnd == "panic: index out of bounds: the len is 0 but the index is 1"

ScoreNum(n, d) == [kind |-> "num", n |-> n, d |-> d]
ScoreInf == [kind |-> "inf", n |-> 1, d |-> 0]
ScoreNaN == [kind |-> "nan", n |-> 0, d |-> 0]
\* f64::NEG_INFINITY, the best value before the first candidate
ScoreNegInfinity == [kind |-> "neg_inf", n |-> 0 - 1, d |-> 0]

\* a > b on f64: false whenever either side is NaN
ScoreAbove(a, b) ==
    CASE a.kind = "nan" \/ b.kind = "nan" -> FALSE
      [] a.kind = "neg_inf" -> FALSE
      [] a.kind = "inf" -> b.kind # "inf"
      [] a.kind = "num" /\ b.kind = "neg_inf" -> TRUE
      [] a.kind = "num" /\ b.kind = "inf" -> FALSE
      [] a.kind = "num" /\ b.kind = "num" -> a.n * b.d > b.n * a.d

\* Positionable::add_position of CallButterfly: a long leg at or above the
\* short strike becomes the OTM wing, one below it the ITM wing.
CallButterfly_add_position(s, position) ==
    IF position.side = "Long"
    THEN IF position.strike_price >= s.short_call.strike_price
         THEN [s EXCEPT !.long_call_otm = position]
         ELSE [s EXCEPT !.long_call_itm = position]
    ELSE [s EXCEPT !.short_call = position]

\* Profit::calculate_profit_at of CallButterfly
CallButterfly_calculate_profit_at(s, price) ==
    pnl_at_expiration(s.long_call_itm, price)
        + pnl_at_expiration(s.long_call_otm, price)
        + pnl_at_expiration(s.short_call, price)

\* Position::default: a long call on nothing
Position_default == Position("Call", "Long", 0, 0, 0, 0, 0, 0)

\* CallButterfly::new; the break-even points are strike -/+ loss / long
\* quantity, kept as the fractions <<numerator, denominator>>.
CallButterfly_new(underlying_symbol, underlying_price, long_strike_itm, long_strike_otm, short_strike, long_quantity, short_quantity, premium_long_itm, premium_long_otm, premium_short, open_fee_long, close_fee_long, open_fee_short, close_fee_short) ==
    LET s0 == [kind |-> "CallButterfly", name |-> underlying_symbol,
               break_even_points |-> <<>>,
               long_call_itm |-> Position_default,
               long_call_otm |-> Position_default,
               short_call |-> Position_default,
               underlying_price |-> underlying_price]
        short_call == Position("Call", "Short", short_strike, short_quantity, premium_short, open_fee_short, close_fee_short, underlying_price)
        s1 == [CallButterfly_add_position(s0, short_call) EXCEPT !.short_call = short_call]
        long_call_itm == Position("Call", "Long", long_strike_itm, long_quantity, premium_long_itm, open_fee_long, close_fee_long, underlying_price)
        s2 == [CallButterfly_add_position(s1, long_call_itm) EXCEPT !.long_call_itm = long_call_itm]
        long_call_otm == Position("Call", "Long", long_strike_otm, long_quantity, premium_long_otm, open_fee_long, close_fee_long, underlying_price)
        s3 == [CallButterfly_add_position(s2, long_call_otm) EXCEPT !.long_call_otm = long_call_otm]
        loss_at_itm_strike == CallButterfly_calculate_profit_at(s3, s3.long_call_itm.strike_price)
        loss_at_otm_strike == CallButterfly_calculate_profit_at(s3, s3.long_call_otm.strike_price)
        first_bep == <<s3.long_call_itm.strike_price * long_quantity - loss_at_itm_strike, long_quantity>>
        second_bep == <<s3.long_call_otm.strike_price * long_quantity + loss_at_otm_strike, long_quantity>>
    IN  [s3 EXCEPT !.break_even_points = <<first_bep, second_bep>>]

\* CallButterfly::is_valid_short_option
CallButterfly_is_valid_short_option(self, short_option, side) ==
    CASE side.t = "Upper" -> short_option.strike_price >= self.underlying_price
      [] side.t = "Lower" -> short_option.strike_price <= self.underlying_price
      [] side.t = "All" -> TRUE
      [] side.t = "Range" ->
            short_option.strike_price >= side.a /\ short_option.strike_price <= side.b

\* OptionData::valid_call: a strike above zero, an implied volatility and the
\* quotes of the call.
OptionData_valid_call(row) ==
    /\ row.strike_price > 0
    /\ row.implied_volatility.some
    /\ row.call_bid.some /\ row.call_ask.some

\* CallButterfly::are_valid_prices: the ask of the ITM wing is looked at twice,
\* the ask of the OTM wing never.
CallButterfly_are_valid_prices(long_itm, long_otm, short_option) ==
    IF ~OptionData_valid_call(long_itm) \/ ~OptionData_valid_call(long_otm) \/ ~OptionData_valid_call(short_option)
    THEN FALSE
    ELSE long_itm.call_ask.v > 0 /\ long_itm.call_ask.v > 0 /\ short_option.call_bid.v > 0

\* CallButterfly::create_strategy
CallButterfly_create_strategy(self, option_chain, long_itm, long_otm, short_option) ==
    IF ~OptionData_validate(short_option) \/ ~OptionData_validate(long_itm) \/ ~OptionData_validate(long_otm)
    THEN SPanic(PanicInvalidOptions, self)
    ELSE SOk(CallButterfly_new(option_chain.symbol, option_chain.underlying_price, long_itm.strike_price, long_otm.strike_price, short_option.strike_price, self.long_call_itm.quantity, self.short_call.quantity, long_itm.call_ask.v, long_otm.call_ask.v, short_option.call_bid.v, self.long_call_itm.open_fee, self.long_call_itm.close_fee, self.short_call.open_fee, self.short_call.close_fee))

\* Strategies::max_profit of CallButterfly
CallButterfly_max_profit(s) == Abs(CallButterfly_calculate_profit_at(s, s.short_call.strike_price))

\* Strategies::max_loss of CallButterfly
CallButterfly_max_loss(s) ==
    LET lower_loss == CallButterfly_calculate_profit_at(s, s.long_call_itm.strike_price)
        upper_loss == CallButterfly_calculate_profit_at(s, s.long_call_otm.strike_price)
    IN  CASE lower_loss > 0 /\ upper_loss > 0 -> 0
          [] lower_loss > 0 /\ ~(upper_loss > 0) -> Abs(upper_loss)
          [] ~(lower_loss > 0) /\ upper_loss > 0 -> Abs(lower_loss)
          [] ~(lower_loss > 0) /\ ~(upper_loss > 0) ->
                IF Abs(lower_loss) >= Abs(upper_loss) THEN Abs(lower_loss) ELSE Abs(upper_loss)

\* An f64 quotient n / d of a non-negative n
ScoreDiv(n, d) == IF d # 0 THEN ScoreNum(n, d) ELSE IF n = 0 THEN ScoreNaN ELSE ScoreInf

\* Strategies::profit_area of CallButterfly:
\* (range * max_profit / 2) / underlying_price * 100
CallButterfly_profit_area(s) ==
    LET range == s.short_call.strike_price - s.long_call_itm.strike_price
    IN  ScoreDiv(range * CallButterfly_max_profit(s) * 100, 2 * s.underlying_price)

\* Strategies::profit_ratio of CallButterfly: max_profit / max_loss * 100
CallButterfly_profit_ratio(s) ==
    ScoreDiv(CallButterfly_max_profit(s) * 100, CallButterfly_max_loss(s))

\* Validable::validate of CallButterfly
CallButterfly_validate(s) ==
    IF s.name = "" THEN FALSE
    ELSE IF ~Position_validate(s.long_call_itm) THEN FALSE
    ELSE IF ~Position_validate(s.long_call_otm) THEN FALSE
    ELSE IF ~Position_validate(s.short_call) THEN FALSE
    ELSE IF s.underlying_price <= 0 THEN FALSE
    ELSE IF s.short_call.quantity # s.long_call_itm.quantity * 2 THEN FALSE
    ELSE TRUE

\* The loops of CallButterfly::find_optimal from (short_index, long_itm_index)
\* on, with indices counted from zero as in the code; end is the upper end of
\* the range of short_index.
RECURSIVE CallButterfly_find_optimal_loop(_, _, _, _, _, _, _, _)
CallButterfly_find_optimal_loop(self, option_chain, side, criteria, end, short_index, long_itm_index, best_value) ==
    IF short_index >= end THEN SOk(self)
    ELSE LET options == option_chain.options
             short_option == options[short_index + 1]
             long_otm_index == short_index + (short_index - long_itm_index)
             long_itm == options[long_itm_index + 1]
             long_otm == options[long_otm_index + 1]
             created == CallButterfly_create_strategy(self, option_chain, long_itm, long_otm, short_option)
             value == IF criteria = "Ratio" THEN CallButterfly_profit_ratio(created.s) ELSE CallButterfly_profit_area(created.s)
         IN  IF long_itm_index = 0 /\ ~CallButterfly_is_valid_short_option(self, short_option, side)
             THEN CallButterfly_find_optimal_loop(self, option_chain, side, criteria, end, short_index + 1, 0, best_value)
             ELSE IF long_itm_index >= short_index
             THEN CallButterfly_find_optimal_loop(self, option_chain, side, criteria, end, short_index + 1, 0, best_value)
             ELSE IF long_otm_index >= Len(options)
             THEN CallButterfly_find_optimal_loop(self, option_chain, side, criteria, end, short_index, long_itm_index + 1, best_value)
             ELSE IF ~CallButterfly_are_valid_prices(long_itm, long_otm, short_option)
             THEN CallButterfly_find_optimal_loop(self, option_chain, side, criteria, end, short_index, long_itm_index + 1, best_value)
             ELSE IF created.outcome # "Ok" THEN SPanic(created.outcome, self)
             ELSE IF ~CallButterfly_validate(created.s) THEN SPanic(PanicInvalidStrategy, self)
             ELSE IF ScoreAbove(value, best_value)
             THEN CallButterfly_find_optimal_loop(created.s, option_chain, side, criteria, end, short_index, long_itm_index + 1, value)
             ELSE CallButterfly_find_optimal_loop(self, option_chain, side, criteria, end, short_index, long_itm_index + 1, best_value)

\* CallButterfly::find_optimal.  options.len() - 1 is a usize subtraction: on
\* a chain without rows it overflows, which panics where overflow checks are
\* compiled in and wraps to usize::MAX where they are not, and then
\* options[1] is out of bounds.
CallButterfly_find_optimal(self, option_chain, side, criteria, overflow_checks) ==
    IF Len(option_chain.options) = 0
    THEN IF overflow_checks THEN SPanic(PanicSubtractOverflow, self)
         ELSE SPanic(PanicIndexPastTheEnd, self)
    ELSE CallButterfly_find_optimal_loop(self, option_chain, side, criteria, Len(option_chain.options) - 1, 1, 0, ScoreNegInfinity)

(***************************************************************************)
(* The call butterfly under a caller's find_optimal call on a given chain. *)
(***************************************************************************)

\* The rows a chain can hold at a strike: fully quoted at one of two price
\* levels, without call quotes, with a zero ask, and without put quotes.
ButterflyRows(k) ==
    {OptionData(k, Some(1), Some(1), Some(1), Some(1), Some(1)),
     OptionData(k, Some(MaxChainRows), Some(MaxChainRows + k), Some(1), Some(1), Some(1)),
     OptionData(k, None, None, Some(1), Some(1), Some(1)),
     OptionData(k, Some(1), Some(0), Some(1), Some(1), Some(1)),
     OptionData(k, Some(1), Some(1), None, None, Some(1))}

\* The chain keeps its rows keyed and ordered by strike: row i is at strike i.
ButterflyChainInputs ==
    {[symbol |-> symbol, underlying_price |-> Underlying, options |-> rows] :
        symbol \in {"SP500"},
        rows \in UNION {{r \in [1..n -> UNION {ButterflyRows(k) : k \in 1..MaxChainRows}] :
                            \A i \in 1..n : r[i].strike_price = i} : n \in 0..MaxChainRows}}

ButterflySideInputs ==
    {SideAll, SideUpper, SideLower}
        \cup UNION {{SideRange(a, b) : b \in a..MaxChainRows} : a \in 1..MaxChainRows}

FindOptimalCallButterfly(overflow_checks) ==
    /\ StratAlive
    /\ strategy.kind = "CallButterfly"
    /\ last.op = "new"
    /\ \E r \in {CallButterfly_find_optimal(strategy, search.chain, search.side, search.criteria, overflow_checks)} :
          /\ strategy' = r.s
          /\ last' = [op |-> "find_optimal", outcome |-> r.outcome]
    /\ search' = [search EXCEPT !.before = strategy]

InitCallButterfly ==
    /\ pval = 0
    /\ pres = [op |-> "default", arg |-> Num(0), before |-> 0, outcome |-> "Ok"]
    /\ \E short_quantity \in 1..MaxQuantity :
          strategy = CallButterfly_new("SP500", Underlying, 1, 3, 2, 1, short_quantity, 1, 1, 1, 0, 0, 0, 0)
    /\ last = [op |-> "new", outcome |-> "Ok"]
    /\ \E chain \in ButterflyChainInputs, side \in ButterflySideInputs, criteria \in CriteriaInputs :
          search = [chain |-> chain, side |-> side, criteria |-> criteria,
                    before |-> strategy]
    /\ request = NoRequest
    /\ surface = NoSurface
    /\ answer = NoAnswer
    /\ original = NoPositive
    /\ json = NoJson

NextCallButterfly ==
    /\ \E overflow_checks \in BOOLEAN : FindOptimalCallButterfly(overflow_checks)
    /\ UNCHANGED <<posVars, surfVars, jsonVars, request>>

SpecCallButterfly == InitCallButterfly /\ [][NextCallButterfly]_vars

(***************************************************************************)
(* The strategy under a caller's add_position, modify_position,            *)
(* update_break_even_points and find_optimal calls; the chain searched is  *)
(* the empty one, and the record of a search is dropped by the next edit.  *)
(***************************************************************************)

ForgetSearch == search' = [search EXCEPT !.before = <<>>]

\* The quantities by which a leg is adjusted.
DeltaInputs == (0 - MaxDelta)..MaxDelta

\* adjust_option_position; the call is followed while the adjusted quantity
\* stays within 0..MaxQuantity.
AdjustOptionPosition(quantity, strike, option_style, side) ==
    LET found == get_position(strategy, option_style, side, strike)
    IN  /\ found.outcome = "Ok"
            => strategy[found.slot].quantity + quantity \in 0..MaxQuantity
        /\ StratStep("adjust_option_position",
                     adjust_option_position(strategy, quantity, strike, option_style, side))

Init ==
    /\ pval = 0
    /\ pres = [op |-> "default", arg |-> Num(0), before |-> 0, outcome |-> "Ok"]
    /\ \E kind \in Kinds, k \in 0..MaxStrike, q \in 1..MaxQuantity,
          pc \in 0..MaxPremium, pp \in 0..MaxPremium :
          LET r == Straddle_new(kind, Underlying, k, q, pc, pp, 0, 0, 0, 0)
          IN  r.outcome = "Ok" /\ strategy = r.s
    /\ last = [op |-> "new", outcome |-> "Ok"]
    /\ search = [chain |-> [underlying_price |-> Underlying, options |-> <<>>],
                 side |-> [t |-> "All", a |-> 0, b |-> 0], criteria |-> "Ratio",
                 before |-> <<>>]
    /\ request = NoRequest
    /\ surface = NoSurface
    /\ answer = NoAnswer
    /\ original = NoPositive
    /\ json = NoJson

Next ==
    \/ \E p \in PositionInputs : AddPosition(p) /\ ForgetSearch /\ UNCHANGED <<posVars, surfVars, jsonVars, request>>
    \/ \E p \in PositionInputs : ModifyPosition(p) /\ ForgetSearch /\ UNCHANGED <<posVars, surfVars, jsonVars, request>>
    \/ UpdateBreakEvenPoints /\ ForgetSearch /\ UNCHANGED <<posVars, surfVars, jsonVars, request>>
    \/ FindOptimal /\ UNCHANGED <<posVars, surfVars, jsonVars, request>>
    \/ \E quantity \in DeltaInputs, strike \in 1..MaxStrike, option_style \in Styles, side \in Sides :
          AdjustOptionPosition(quantity, strike, option_style, side)
              /\ ForgetSearch /\ UNCHANGED <<posVars, surfVars, jsonVars, request>>

Spec == Init /\ [][Next]_vars

(***************************************************************************)
(* Constructors and the profit at a price: get_strategy of the straddles   *)
(* (straddle.rs), LongButterflySpread (butterfly_spread.rs) and            *)
(* calculate_profit_at of both.                                            *)
(***************************************************************************)

\* The caller holds no strategy: nothing was constructed, or the constructor
\* returned an error or panicked.
NoStrategy == [kind |-> "None"]

\* ShortStraddle::get_positions and LongStraddle::get_positions
Straddle_get_positions(s) == <<s.call, s.put>>

\* ShortStraddle::calculate_profit_at
ShortStraddle_calculate_profit_at(s, price) ==
    pnl_at_expiration(s.call, price) + pnl_at_expiration(s.put, price)

\* LongStraddle::calculate_profit_at
LongStraddle_calculate_profit_at(s, price) ==
    pnl_at_expiration(s.call, price) + pnl_at_expiration(s.put, price)

\* get_strategy without the comparison of the two expiration dates
get_strategy_any_expiration(kind, vec_options) ==
    IF Len(vec_options) # 2 THEN SErr(NoStrategy)
    ELSE LET calls == {i \in 1..2 : vec_options[i].option_style = "Call"}
             puts == {i \in 1..2 : vec_options[i].option_style = "Put"}
         IN  IF calls = {} \/ puts = {} THEN SErr(NoStrategy)
             ELSE LET call_position == vec_options[CHOOSE i \in calls : \A j \in calls : j <= i]
                      put_position == vec_options[CHOOSE i \in puts : \A j \in puts : j <= i]
                  IN  IF call_position.strike_price # put_position.strike_price
                      THEN SErr(NoStrategy)
                      ELSE IF \/ call_position.side # StrategySide(kind)
                              \/ put_position.side # StrategySide(kind)
                      THEN SErr(NoStrategy)
                      ELSE update_break_even_points(
                               [kind |-> kind, call |-> call_position,
                                put |-> put_position, break_even_points |-> <<>>])

\* ShortStraddle::get_strategy and LongStraddle::get_strategy: the loop keeps
\* the last Call and the last Put of the slice; the result of validate() is
\* dropped; an error or a panic of update_break_even_points is passed on.
get_strategy(kind, vec_options) ==
    IF Len(vec_options) # 2 THEN SErr(NoStrategy)
    ELSE LET calls == {i \in 1..2 : vec_options[i].option_style = "Call"}
             puts == {i \in 1..2 : vec_options[i].option_style = "Put"}
         IN  IF calls = {} \/ puts = {} THEN SErr(NoStrategy)
             ELSE LET call_position == vec_options[CHOOSE i \in calls : \A j \in calls : j <= i]
                      put_position == vec_options[CHOOSE i \in puts : \A j \in puts : j <= i]
                  IN  IF call_position.strike_price # put_position.strike_price
                      THEN SErr(NoStrategy)
                      ELSE IF \/ call_position.side # StrategySide(kind)
                              \/ put_position.side # StrategySide(kind)
                      THEN SErr(NoStrategy)
                      ELSE IF call_position.expiration_date # put_position.expiration_date
                      THEN SErr(NoStrategy)
                      ELSE update_break_even_points(
                               [kind |-> kind, call |-> call_position,
                                put |-> put_position, break_even_points |-> <<>>])

\* LongButterflySpread::get_positions
LongButterflySpread_get_positions(s) == <<s.long_call_low, s.short_calls, s.long_call_high>>

\* calculate_profit_at that leaves the upper wing out
LongButterflySpread_calculate_profit_at_no_high_wing(s, price) ==
    pnl_at_expiration(s.long_call_low, price) + pnl_at_expiration(s.short_calls, price)

\* LongButterflySpread::calculate_profit_at
LongButterflySpread_calculate_profit_at(s, price) ==
    pnl_at_expiration(s.long_call_low, price)
        + pnl_at_expiration(s.short_calls, price)
        + pnl_at_expiration(s.long_call_high, price)

\* Profit::calculate_profit_at of the strategy at hand
calculate_profit_at(s, price) ==
    CASE s.kind = "ShortStraddle" -> ShortStraddle_calculate_profit_at(s, price)
      [] s.kind = "LongStraddle" -> LongStraddle_calculate_profit_at(s, price)
      [] s.kind = "LongButterflySpread" -> LongButterflySpread_calculate_profit_at(s, price)

\* Positionable::get_positions of the strategy at hand
get_positions(s) ==
    IF s.kind = "LongButterflySpread"
    THEN LongButterflySpread_get_positions(s)
    ELSE Straddle_get_positions(s)

\* LongButterflySpread::validate: the three legs are valid, the strikes are
\* strictly increasing, the body is twice a wing, the wings are equal.
LongButterflySpread_validate(s) ==
    /\ Position_validate(s.long_call_low)
    /\ Position_validate(s.short_calls)
    /\ Position_validate(s.long_call_high)
    /\ ~(s.long_call_low.strike_price >= s.short_calls.strike_price)
    /\ ~(s.short_calls.strike_price >= s.long_call_high.strike_price)
    /\ ~(s.short_calls.quantity # s.long_call_low.quantity * 2)
    /\ ~(s.long_call_low.quantity # s.long_call_high.quantity)

\* LongButterflySpread::add_position: a long position goes to the lower wing
\* when its strike is below the body's, to the upper wing otherwise; a short
\* one replaces the body.
LongButterflySpread_add_position(s, p) ==
    IF p.side = "Long"
    THEN IF p.strike_price < s.short_calls.strike_price
         THEN SOk([s EXCEPT !.long_call_low = p])
         ELSE SOk([s EXCEPT !.long_call_high = p])
    ELSE SOk([s EXCEPT !.short_calls = p])

\* LongButterflySpread::max_profit: the profit at the middle strike, an error
\* unless it is above zero.
LongButterflySpread_max_profit(s) ==
    LET profit == LongButterflySpread_calculate_profit_at(s, s.short_calls.strike_price)
    IN  IF profit > 0 THEN POk(profit) ELSE PErr

\* LongButterflySpread::max_loss: the lesser of the profits at the two wing
\* strikes, an error when it is above zero, its absolute value otherwise.
LongButterflySpread_max_loss(s) ==
    LET left_loss == LongButterflySpread_calculate_profit_at(s, s.long_call_low.strike_price)
        right_loss == LongButterflySpread_calculate_profit_at(s, s.long_call_high.strike_price)
        max_loss_ == IF left_loss <= right_loss THEN left_loss ELSE right_loss
    IN  IF max_loss_ > 0 THEN PErr ELSE POk(Abs(max_loss_))

\* LongButterflySpread::new: the result of validate() is dropped; each net
\* value is the profit at a wing's strike divided by the quantity, and a
\* break-even point is pushed for each net value that is not above zero.
LongButterflySpread_new(underlying_price, low_strike, middle_strike, high_strike, quantity, premium_low, premium_middle, premium_high, open_fee_short_call, close_fee_short_call, open_fee_long_call_low, close_fee_long_call_low, open_fee_long_call_high, close_fee_long_call_high) ==
    LET s == [kind |-> "LongButterflySpread",
              long_call_low |-> Position("Call", "Long", low_strike, quantity, premium_low,
                                         open_fee_long_call_low, close_fee_long_call_low,
                                         underlying_price),
              short_calls |-> Position("Call", "Short", middle_strike, quantity * 2,
                                       premium_middle, open_fee_short_call,
                                       close_fee_short_call, underlying_price),
              long_call_high |-> Position("Call", "Long", high_strike, quantity, premium_high,
                                          open_fee_long_call_high, close_fee_long_call_high,
                                          underlying_price),
              break_even_points |-> <<>>]
    IN  IF quantity = 0 THEN SPanic(PanicDivisionByZero, s)
        ELSE LET left == LongButterflySpread_calculate_profit_at(s, low_strike)
                 right == LongButterflySpread_calculate_profit_at(s, high_strike)
                 lower == IF left <= 0
                          THEN <<RoundDp(low_strike * quantity - left, quantity)>>
                          ELSE <<>>
                 upper == IF right <= 0
                          THEN <<RoundDp(high_strike * quantity + right, quantity)>>
                          ELSE <<>>
             IN  SOk([s EXCEPT !.break_even_points = lower \o upper])

(***************************************************************************)
(* Probability ranges: src/src/model/profit_range.rs and the               *)
(* ProbabilityAnalysis implementations of the strategies.  Probabilities   *)
(* count thousandths.  calculate_single_point_probability is not part of   *)
(* the sources at hand; it is the lognormal distribution function of the   *)
(* specification, Phi((ln(x/S) + sigma^2 T/2) / (sigma sqrt(T))), tabulated *)
(* here for S = 2 (the underlying price of every strategy of the model),   *)
(* sigma sqrt(T) = 0.5 and no drift.                                       *)
(***************************************************************************)

PanicIndexOutOfBounds == "panic: index out of bounds"

\* The probability, in thousandths, that the terminal price is below x.
prob_below(x) ==
    IF x <= 0 THEN 0
    ELSE IF x >= 10 THEN 1000
    ELSE <<128, 599, 856, 949, 981, 993, 997, 999, 999>>[x]

ROk(ranges) == [outcome |-> "Ok", ranges |-> ranges]
RErr == [outcome |-> "Err", ranges |-> <<>>]
RPanic(msg) == [outcome |-> msg, ranges |-> <<>>]

\* ProfitLossRange::new: an error when both bounds are present and the lower
\* one is not below the upper one.
ProfitLossRange_new(lower_bound, upper_bound, probability) ==
    IF lower_bound.some /\ upper_bound.some /\ lower_bound.v >= upper_bound.v
    THEN RErr
    ELSE ROk(<<[lower_bound |-> lower_bound, upper_bound |-> upper_bound,
                probability |-> probability]>>)

\* ProfitLossRange::calculate_probability: a missing lower bound stands for
\* zero, a missing upper bound for infinity.
calculate_probability(range) ==
    IF unwrap_or(range.lower_bound, 0) > unwrap_or(range.upper_bound, DecimalMax)
    THEN RErr
    ELSE ROk(<<[range EXCEPT !.probability =
                    prob_below(unwrap_or(range.upper_bound, DecimalMax))
                        - prob_below(unwrap_or(range.lower_bound, 0))]>>)

\* One declared range: ProfitLossRange::new(..)? then calculate_probability(..)?
DeclaredRange(lower_bound, upper_bound, probability) ==
    LET made == ProfitLossRange_new(lower_bound, upper_bound, probability)
    IN  IF made.outcome # "Ok" THEN made ELSE calculate_probability(made.ranges[1])

\* ShortStraddle::get_profit_ranges: the range between the break-even points
ShortStraddle_get_profit_ranges(s) ==
    LET break_even_points == get_break_even_points(s)
    IN  IF Len(break_even_points) < 2 THEN RPanic(PanicIndexOutOfBounds)
        ELSE DeclaredRange(Some(break_even_points[1]), Some(break_even_points[2]), 0)

\* ShortStraddle::get_loss_ranges: below the lower break-even point and above
\* the upper one, both open-ended
ShortStraddle_get_loss_ranges(s) ==
    LET break_even_points == get_break_even_points(s)
    IN  IF Len(break_even_points) < 1 THEN RPanic(PanicIndexOutOfBounds)
        ELSE LET lower_loss_range == DeclaredRange(None, Some(break_even_points[1]), 0)
             IN  IF lower_loss_range.outcome # "Ok" THEN lower_loss_range
                 ELSE IF Len(break_even_points) < 2 THEN RPanic(PanicIndexOutOfBounds)
                 ELSE LET upper_loss_range == DeclaredRange(Some(break_even_points[2]), None, 0)
                      IN  IF upper_loss_range.outcome # "Ok" THEN upper_loss_range
                          ELSE ROk(lower_loss_range.ranges \o upper_loss_range.ranges)

\* LongButterflySpread::get_profit_ranges: the range between the break-even points
LongButterflySpread_get_profit_ranges(s) ==
    LET break_even_points == get_break_even_points(s)
    IN  IF Len(break_even_points) < 2 THEN RPanic(PanicIndexOutOfBounds)
        ELSE IF LongButterflySpread_max_profit(s).outcome # "Ok" THEN RErr
        ELSE DeclaredRange(Some(break_even_points[1]), Some(break_even_points[2]),
                           LongButterflySpread_max_profit(s).v)

\* LongButterflySpread::get_loss_ranges: from the low strike to the first
\* break-even point and from the second break-even point to the high strike
LongButterflySpread_get_loss_ranges(s) ==
    LET break_even_points == get_break_even_points(s)
    IN  IF Len(break_even_points) < 1 THEN RPanic(PanicIndexOutOfBounds)
        ELSE IF LongButterflySpread_max_loss(s).outcome # "Ok" THEN RErr
        ELSE LET lower_loss_range ==
                     DeclaredRange(Some(s.long_call_low.strike_price),
                                   Some(break_even_points[1]),
                                   LongButterflySpread_max_loss(s).v)
             IN  IF lower_loss_range.outcome # "Ok" THEN lower_loss_range
                 ELSE IF Len(break_even_points) < 2 THEN RPanic(PanicIndexOutOfBounds)
                 ELSE LET upper_loss_range ==
                              DeclaredRange(Some(break_even_points[2]),
                                            Some(s.long_call_high.strike_price),
                                            LongButterflySpread_max_loss(s).v)
                      IN  IF upper_loss_range.outcome # "Ok" THEN upper_loss_range
                          ELSE ROk(lower_loss_range.ranges \o upper_loss_range.ranges)

\* ProbabilityAnalysis::get_profit_ranges and get_loss_ranges of the strategy at hand
get_profit_ranges(s) ==
    IF s.kind = "LongButterflySpread"
    THEN LongButterflySpread_get_profit_ranges(s)
    ELSE ShortStraddle_get_profit_ranges(s)

get_loss_ranges(s) ==
    IF s.kind = "LongButterflySpread"
    THEN LongButterflySpread_get_loss_ranges(s)
    ELSE ShortStraddle_get_loss_ranges(s)

\* The strikes a butterfly is asked for, and every strike and price up to and
\* just beyond them.
ButterflyStrikes == 1..MaxButterflyStrike
PriceInputs == 0..(MaxButterflyStrike + 1)

\* The positions handed to get_strategy: one contract each, at the highest premium.
GetStrategyPositions ==
    {[Position(style, side, strike, 1, MaxPremium, 0, 0, Underlying) EXCEPT !.expiration_date = e] :
        style \in Styles, side \in Sides, strike \in 1..MaxStrike, e \in 1..MaxExpiration}

GetStrategyInputs == UNION {[1..n -> GetStrategyPositions] : n \in 0..MaxPositions}

\* The positions handed to add_position of a butterfly: one contract each.
ButterflyPositionInputs ==
    {[Position(style, side, strike, 1, 0, 0, 0, Underlying) EXCEPT !.expiration_date = e] :
        style \in Styles, side \in Sides, strike \in ButterflyStrikes, e \in 1..MaxExpiration}

\* Nothing was called yet.
Fresh == last.op = "none"

Constructed == strategy.kind # "None"

\* A constructor call: the caller holds the strategy only when it returns Ok.
Construct(op, kind, positions, r) ==
    /\ Fresh
    /\ strategy' = IF r.outcome = "Ok" THEN r.s ELSE NoStrategy
    /\ last' = [op |-> op, outcome |-> r.outcome]
    /\ request' = [kind |-> kind, positions |-> positions, price |-> 0, profit |-> 0]

NewStraddle(kind, strike, quantity, premium_call, premium_put) ==
    Construct("new", kind, <<>>, Straddle_new(kind, Underlying, strike, quantity, premium_call, premium_put, 0, 0, 0, 0))

NewLongButterflySpread(low_strike, middle_strike, high_strike, quantity, premium_low, premium_middle, premium_high) ==
    Construct("new", "LongButterflySpread", <<>>, LongButterflySpread_new(Underlying, low_strike, middle_strike, high_strike, quantity, premium_low, premium_middle, premium_high, 0, 0, 0, 0, 0, 0))

GetStrategy(kind, vec_options) ==
    Construct("get_strategy", kind, vec_options, get_strategy(kind, vec_options))

\* add_position on the butterfly the constructor has just returned
ButterflyAddPosition(p) ==
    LET r == LongButterflySpread_add_position(strategy, p)
    IN  /\ Constructed
        /\ strategy.kind = "LongButterflySpread"
        /\ last.op = "new"
        /\ strategy' = r.s
        /\ last' = [op |-> "add_position", outcome |-> r.outcome]
        /\ request' = [request EXCEPT !.positions = <<p>>]

\* calculate_profit_at(price) takes &self: it reads the strategy and changes
\* nothing, so one call per strategy is followed.
CalculateProfitAt(price) ==
    /\ Constructed
    /\ last.op # "calculate_profit_at"
    /\ strategy' = strategy
    /\ last' = [op |-> "calculate_profit_at", outcome |-> "Ok"]
    /\ request' = [kind |-> strategy.kind, positions |-> <<>>, price |-> price,
                   profit |-> calculate_profit_at(strategy, price)]

InitConstruct ==
    /\ pval = 0
    /\ pres = [op |-> "default", arg |-> Num(0), before |-> 0, outcome |-> "Ok"]
    /\ strategy = NoStrategy
    /\ last = [op |-> "none", outcome |-> "Ok"]
    /\ search = NoSearch
    /\ request = NoRequest
    /\ surface = NoSurface
    /\ answer = NoAnswer
    /\ original = NoPositive
    /\ json = NoJson

NextConstruct ==
    \/ /\ Fresh
       /\ \E kind \in Kinds, strike \in 0..MaxStrike, quantity \in 0..MaxQuantity,
             premium_call \in 0..MaxPremium, premium_put \in 0..MaxPremium :
             NewStraddle(kind, strike, quantity, premium_call, premium_put)
       /\ UNCHANGED <<posVars, surfVars, jsonVars, search>>
    \/ /\ Fresh
       /\ \E low_strike \in ButterflyStrikes, middle_strike \in ButterflyStrikes,
             high_strike \in ButterflyStrikes, quantity \in 0..MaxQuantity,
             premium_low \in 0..MaxPremium, premium_middle \in 0..MaxPremium,
             premium_high \in 0..MaxPremium :
             NewLongButterflySpread(low_strike, middle_strike, high_strike, quantity, premium_low, premium_middle, premium_high)
       /\ UNCHANGED <<posVars, surfVars, jsonVars, search>>
    \/ /\ Fresh
       /\ \E kind \in Kinds, vec_options \in GetStrategyInputs :
             GetStrategy(kind, vec_options)
       /\ UNCHANGED <<posVars, surfVars, jsonVars, search>>
    \/ /\ Constructed
       /\ \E p \in ButterflyPositionInputs : ButterflyAddPosition(p)
       /\ UNCHANGED <<posVars, surfVars, jsonVars, search>>
    \/ /\ Constructed
       /\ \E price \in PriceInputs : CalculateProfitAt(price)
       /\ UNCHANGED <<posVars, surfVars, jsonVars, search>>

SpecConstruct == InitConstruct /\ [][NextConstruct]_vars

(***************************************************************************)
(* Surfaces: src/src/surfaces/surface.rs.  Coordinates are whole numbers   *)
(* and an interpolated z is an exact fraction <<numerator, denominator>>   *)
(* with a positive denominator.  Point2D, Point3D, calculate_range and the *)
(* dispatch of interpolate are not part of the sources at hand: a point is *)
(* its coordinates, and the set keeps points in the order of x, then y,    *)
(* then z (test_invalid_quadrilateral stores four points that differ in z  *)
(* only and finds all four).                                               *)
(***************************************************************************)
Point2D_new(x, y) == [x |-> x, y |-> y]

Point3D_new(x, y, z) == [x |-> x, y |-> y, z |-> z]

\* the order of BTreeSet<Point3D>
Point3D_lt(a, b) ==
    \/ a.x < b.x
    \/ a.x = b.x /\ a.y < b.y
    \/ a.x = b.x /\ a.y = b.y /\ a.z < b.z

SetMin(S) == CHOOSE m \in S : \A v \in S : m <= v

SetMax(S) == CHOOSE m \in S : \A v \in S : v <= m

calculate_range(values) == <<SetMin(values), SetMax(values)>>

Surface_new(points) ==
    [points |-> points,
     x_range |-> calculate_range({p.x : p \in points}),
     y_range |-> calculate_range({p.y : p \in points})]

BuiltOk(s) == [outcome |-> "Ok", reason |-> "", surface |-> s]

BuiltErr(reason) == [outcome |-> "Err", reason |-> reason, surface |-> NoSurface]

BuiltPanic(reason) == [outcome |-> "Panic", reason |-> reason, surface |-> NoSurface]

\* ConstructionMethod::FromData
construct_from_data(points) ==
    IF points = {}
    THEN BuiltErr("Empty points array")
    ELSE BuiltOk(Surface_new(points))

\* The caller's parametric function: it fails on the points of f.fails and
\* returns (x, y, x * y) or (x, y, 1) elsewhere.
evaluate(f, t) ==
    IF t \in f.fails
    THEN [outcome |-> "Err", point |-> Point3D_new(0, 0, 0)]
    ELSE [outcome |-> "Ok", point |-> Point3D_new(t.x, t.y, IF f.z = "product" THEN t.x * t.y ELSE 1)]

\* the points at which the grid of the parameters is evaluated
grid(params) ==
    LET x_step == (params.x_end - params.x_start) \div params.x_steps
        y_step == (params.y_end - params.y_start) \div params.y_steps
    IN  {Point2D_new(params.x_start + x_step * i, params.y_start + y_step * j) : i \in 0..params.x_steps, j \in 0..params.y_steps}

\* a construct that keeps the cells whose evaluation succeeded
construct_parametric_keeping_successes(f, params) ==
    IF params.shape # "D3"
    THEN BuiltErr("Invalid parameters")
    ELSE IF params.x_steps = 0 \/ params.y_steps = 0
    THEN BuiltPanic(PanicDivisionByZero)
    ELSE LET cells == {evaluate(f, t) : t \in grid(params)}
             kept == {c.point : c \in {c \in cells : c.outcome = "Ok"}}
         IN  IF kept = {} THEN BuiltErr("ConstructionError") ELSE BuiltOk(Surface_new(kept))

\* ConstructionMethod::Parametric: the cells are collected into one Result,
\* which is an Err as soon as one cell is.
construct_parametric(f, params) ==
    IF params.shape # "D3"
    THEN BuiltErr("Invalid parameters")
    ELSE IF params.x_steps = 0 \/ params.y_steps = 0
    THEN BuiltPanic(PanicDivisionByZero)
    ELSE LET cells == {evaluate(f, t) : t \in grid(params)}
         IN  IF \E c \in cells : c.outcome = "Err"
             THEN BuiltErr("ConstructionError")
             ELSE BuiltOk(Surface_new({c.point : c \in cells}))

IOk(x, y, z) == [outcome |-> "Ok", reason |-> "", x |-> x, y |-> y, z |-> z]

IErr(reason) == [outcome |-> "Err", reason |-> reason, x |-> 0, y |-> 0, z |-> <<0, 1>>]

IPanic(reason) == [outcome |-> "Panic", reason |-> reason, x |-> 0, y |-> 0, z |-> <<0, 1>>]

PairBefore(a, b) == a[1] < b[1] \/ (a[1] = b[1] /\ a[2] < b[2])

\* the members of S in ascending order of their keys, which are distinct pairs
RECURSIVE SortedByKey(_, _)
SortedByKey(S, key) ==
    IF S = {}
    THEN <<>>
    ELSE LET first == CHOOSE p \in S : \A q \in S \ {p} : PairBefore(key[p], key[q])
         IN  <<first>> \o SortedByKey(S \ {first}, key)

SquaredDistance(p, xy) == (p.x - xy.x) * (p.x - xy.x) + (p.y - xy.y) * (p.y - xy.y)

\* self.points.iter(): the points in the order of the set
points_iter(s) ==
    SortedByKey(s.points, [p \in s.points |-> <<Cardinality({q \in s.points : Point3D_lt(q, p)}), 0>>])

\* the stable sort by distance to xy, then the first four
closest_points(s, xy) ==
    LET all == points_iter(s)
        sorted_points == SortedByKey(1..Len(all), [i \in 1..Len(all) |-> <<SquaredDistance(all[i], xy), i>>])
    IN  [k \in 1..4 |-> all[sorted_points[k]]]

\* the stable sort of the four by (y, x)
quad_points(s, xy) ==
    LET closest == closest_points(s, xy)
        width == 1 + SetMax({closest[k].x : k \in 1..4})
        order == SortedByKey(1..4, [k \in 1..4 |-> <<closest[k].y * width + closest[k].x, k>>])
    IN  [k \in 1..4 |-> closest[order[k]]]

\* a bilinear interpolation without the shortcut for exact matches
bilinear_interpolate_without_exact_match(s, xy) ==
    IF Cardinality(s.points) < 4
    THEN IErr("Need at least four points for bilinear interpolation")
    ELSE IF xy.x < s.x_range[1] \/ xy.x > s.x_range[2] \/ xy.y < s.y_range[1] \/ xy.y > s.y_range[2]
    THEN IErr("Point is outside the surface's range")
    ELSE LET xy_points == {p \in s.points : p.x = xy.x /\ p.y = xy.y}
         IN  IF Cardinality(xy_points) = 4
             THEN IErr("Invalid quadrilateral")
             ELSE LET quad == quad_points(s, xy)
                      q11 == quad[1]
                      q12 == quad[2]
                      q21 == quad[3]
                      q22 == quad[4]
                      a == xy.x - q11.x
                      b == q12.x - q11.x
                      c == xy.y - q11.y
                      d == q21.y - q11.y
                      n == (b - a) * (d - c) * q11.z + a * (d - c) * q12.z
                           + (b - a) * c * q21.z + a * c * q22.z
                  IN  IF b = 0 \/ d = 0
                      THEN IPanic(PanicDivisionByZero)
                      ELSE IF b * d < 0
                      THEN IOk(xy.x, xy.y, <<0 - n, 0 - (b * d)>>)
                      ELSE IOk(xy.x, xy.y, <<n, b * d>>)

bilinear_interpolate(s, xy) ==
    IF Cardinality(s.points) < 4
    THEN IErr("Need at least four points for bilinear interpolation")
    ELSE IF xy.x < s.x_range[1] \/ xy.x > s.x_range[2] \/ xy.y < s.y_range[1] \/ xy.y > s.y_range[2]
    THEN IErr("Point is outside the surface's range")
    ELSE LET xy_points == {p \in s.points : p.x = xy.x /\ p.y = xy.y}
         IN  IF Cardinality(xy_points) = 4
             THEN IErr("Invalid quadrilateral")
             ELSE IF xy_points # {}
             THEN LET point == CHOOSE p \in xy_points : \A q \in xy_points : p.z <= q.z
                  IN  IOk(point.x, point.y, <<point.z, 1>>)
             ELSE LET quad == quad_points(s, xy)
                      q11 == quad[1]
                      q12 == quad[2]
                      q21 == quad[3]
                      q22 == quad[4]
                      a == xy.x - q11.x
                      b == q12.x - q11.x
                      c == xy.y - q11.y
                      d == q21.y - q11.y
                      n == (b - a) * (d - c) * q11.z + a * (d - c) * q12.z
                           + (b - a) * c * q21.z + a * c * q22.z
                  IN  IF b = 0 \/ d = 0
                      THEN IPanic(PanicDivisionByZero)
                      ELSE IF b * d < 0
                      THEN IOk(xy.x, xy.y, <<0 - n, 0 - (b * d)>>)
                      ELSE IOk(xy.x, xy.y, <<n, b * d>>)

\* cubic_interpolate as far as its outcome goes: the weighted z, which needs
\* square roots, is not represented
cubic_interpolate(s, xy50) ==
    IF Cardinality(s.points) < 9
    THEN "Need at least nine points for cubic interpolation"
    ELSE IF xy50.x < MergeSteps * s.x_range[1] \/ xy50.x > MergeSteps * s.x_range[2] \/ xy50.y < MergeSteps * s.y_range[1] \/ xy50.y > MergeSteps * s.y_range[2]
    THEN "Point is outside the surface's range"
    ELSE ""

MergedOk(x_range, y_range) == [outcome |-> "Ok", reason |-> "", x_range |-> x_range, y_range |-> y_range]

MergedErr(reason) == [outcome |-> "Err", reason |-> reason, x_range |-> <<0, 0>>, y_range |-> <<0, 0>>]

\* Surface::merge as far as its outcome and the ranges of the merged surface
\* go.  The sample points are kept in fiftieths, the unit of the grid steps.
merge(surfaces) ==
    IF Len(surfaces) = 0
    THEN MergedErr("No surfaces provided for merging")
    ELSE IF Len(surfaces) = 1
    THEN MergedOk(surfaces[1].x_range, surfaces[1].y_range)
    ELSE LET min_x == SetMax({surfaces[i].x_range[1] : i \in 1..Len(surfaces)})
             max_x == SetMin({surfaces[i].x_range[2] : i \in 1..Len(surfaces)})
             min_y == SetMax({surfaces[i].y_range[1] : i \in 1..Len(surfaces)})
             max_y == SetMin({surfaces[i].y_range[2] : i \in 1..Len(surfaces)})
             sample(i, j) == Point2D_new(MergeSteps * min_x + (max_x - min_x) * i, MergeSteps * min_y + (max_y - min_y) * j)
             z_values(i, j) == LET failing == {k \in 1..Len(surfaces) : cubic_interpolate(surfaces[k], sample(i, j)) # ""}
                               IN  IF failing = {} THEN "" ELSE cubic_interpolate(surfaces[SetMin(failing)], sample(i, j))
             failed == \E i \in 0..MergeSteps, j \in 0..MergeSteps : z_values(i, j) # ""
             reason == LET i == CHOOSE i \in 0..MergeSteps : \E j \in 0..MergeSteps : z_values(i, j) # ""
                           j == CHOOSE j \in 0..MergeSteps : z_values(i, j) # ""
                       IN  z_values(i, j)
         IN  IF min_x >= max_x \/ min_y >= max_y
             THEN MergedErr("Surfaces have incompatible ranges")
             ELSE IF failed
             THEN MergedErr(reason)
             ELSE MergedOk(<<min_x, max_x>>, <<min_y, max_y>>)

(***************************************************************************)
(* A surface under a caller's construct, bilinear_interpolate and merge    *)
(* calls.  A surface is never changed once constructed, so one             *)
(* construction is followed by any number of reading calls.                *)
(***************************************************************************)
Coordinates == 0..MaxCoord

\* the points a caller hands to FromData: up to MaxZ + 1 points stacked at
\* the origin and the three other corners of the square
DataPoints ==
    {Point3D_new(0, 0, z) : z \in 0..MaxZ}
        \cup {Point3D_new(MaxCoord, 0, 1), Point3D_new(0, MaxCoord, 2), Point3D_new(MaxCoord, MaxCoord, 3)}

DataInputs == SUBSET DataPoints

FailInputs == SUBSET {Point2D_new(0, 0), Point2D_new(MaxCoord, 0), Point2D_new(1, 1), Point2D_new(MaxCoord, MaxCoord)}

FunctionInputs == [fails : FailInputs, z : {"product", "one"}]

ParamsInputs == [shape : {"D3", "D2"}, x_start : {0}, x_end : {0, MaxCoord}, y_start : {0}, y_end : {0, MaxCoord}, x_steps : {0, 1, MaxCoord}, y_steps : {0, 1, MaxCoord}]

QueryInputs == {Point2D_new(x, y) : x \in 0..(MaxCoord + 1), y \in 0..(MaxCoord + 1)}

\* the surfaces a caller merges the constructed one with: full grids of nine
\* points and diagonals of two, at several offsets
GridSurface(x, y) == Surface_new({Point3D_new(x + i, y + j, 1) : i \in 0..2, j \in 0..2})

DiagonalSurface(x) == Surface_new({Point3D_new(x, x, 1), Point3D_new(x + 1, x + 1, 1)})

OtherSurfaces ==
    {GridSurface(x, y) : x \in {0, 1, MaxCoord, MaxCoord + 1}, y \in {0, MaxCoord}}
        \cup {DiagonalSurface(x) : x \in {0, MaxCoord + 1}}

MergeInputs == {<<>>, <<surface>>} \cup {<<surface, o>> : o \in OtherSurfaces} \cup {<<o, surface, surface>> : o \in OtherSurfaces}

NothingBuilt == answer.op = "none"

Built == surface.points # {}

ConstructFromData(points) ==
    LET r == construct_from_data(points)
    IN  /\ surface' = r.surface
        /\ answer' = [NoAnswer EXCEPT !.op = "construct_from_data", !.outcome = r.outcome, !.reason = r.reason]

ConstructParametric(f, params) ==
    LET r == construct_parametric(f, params)
    IN  /\ surface' = r.surface
        /\ answer' = [NoAnswer EXCEPT !.op = "construct_parametric", !.outcome = r.outcome, !.reason = r.reason,
                                      !.f = f, !.params = params]

BilinearInterpolate(xy) ==
    \E r \in {bilinear_interpolate(surface, xy)} :
        /\ surface' = surface
        /\ answer' = [NoAnswer EXCEPT !.op = "bilinear_interpolate", !.outcome = r.outcome, !.reason = r.reason,
                                      !.xy = xy, !.z = r.z]

\* merge takes its surfaces by reference and changes none of them; one merge
\* per constructed surface is followed.
Merge(surfaces) ==
    \E r \in {merge(surfaces)} :
        /\ surface' = surface
        /\ answer' = [NoAnswer EXCEPT !.op = "merge", !.outcome = r.outcome, !.reason = r.reason,
                                      !.surfaces = surfaces, !.x_range = r.x_range, !.y_range = r.y_range]

InitSurface ==
    /\ pval = 0
    /\ pres = [op |-> "default", arg |-> Num(0), before |-> 0, outcome |-> "Ok"]
    /\ strategy = NoStrategy
    /\ last = [op |-> "none", outcome |-> "Ok"]
    /\ search = NoSearch
    /\ request = NoRequest
    /\ surface = NoSurface
    /\ answer = NoAnswer
    /\ original = NoPositive
    /\ json = NoJson

NextSurface ==
    \/ /\ NothingBuilt
       /\ \E points \in DataInputs : ConstructFromData(points)
       /\ UNCHANGED <<posVars, stratVars, jsonVars>>
    \/ /\ NothingBuilt
       /\ \E f \in FunctionInputs, params \in ParamsInputs : ConstructParametric(f, params)
       /\ UNCHANGED <<posVars, stratVars, jsonVars>>
    \/ /\ Built
       /\ \E xy \in QueryInputs : BilinearInterpolate(xy)
       /\ UNCHANGED <<posVars, stratVars, jsonVars>>
    \/ /\ Built
       /\ answer.op \in {"construct_from_data", "construct_parametric"}
       /\ \E surfaces \in MergeInputs : Merge(surfaces)
       /\ UNCHANGED <<posVars, stratVars, jsonVars>>

SpecSurface == InitSurface /\ [][NextSurface]_vars

(***************************************************************************)
(* Positive in JSON: impl Serialize and impl Deserialize of positive.rs.   *)
(* A Decimal is its mantissa and its scale, mantissa / 10^scale.  A number *)
(* in a JSON text and in the visitor counts units of 10^-MaxScale, so that *)
(* every fraction of the model is a whole number of units.  The widths are *)
(* scaled down together: the mantissa of Decimal::MAX is DecimalMax /      *)
(* 10^MaxScale (2^96 - 1 in the code), i64 ends at I64Max (2^63 - 1) and   *)
(* an f64 keeps F64Digits significant digits (53 bits, about 16 digits),   *)
(* fewer than a mantissa can have.                                         *)
(***************************************************************************)
RECURSIVE Pow10(_)
Pow10(n) == IF n = 0 THEN 1 ELSE 10 * Pow10(n - 1)

Unit == Pow10(MaxScale)

\* the value of a Decimal in units
Decimal_value(d) == d.mantissa * Pow10(MaxScale - d.scale)

RECURSIVE Digits(_)
Digits(n) == IF n < 10 THEN 1 ELSE 1 + Digits(n \div 10)

\* Decimal::to_i64 of a Decimal of scale 0
Decimal_to_i64(d) == IF d.mantissa <= I64Max THEN Some(d.mantissa) ELSE None

\* Decimal::to_f64: the nearest f64, here the nearest number of F64Digits
\* significant digits, in units
Decimal_to_f64(d) ==
    LET v == Decimal_value(d)
        p == IF Digits(v) <= F64Digits THEN 1 ELSE Pow10(Digits(v) - F64Digits)
    IN  Some(((v + (p \div 2)) \div p) * p)

JOk(text) == [outcome |-> "Ok", text |-> text]

JErr == [outcome |-> "Err", text |-> [kind |-> "none", x |-> 0]]

\* impl Serialize for Positive: the JSON text written
Positive_serialize(p) ==
    IF Decimal_value(p) = DecimalMax
    THEN JOk([kind |-> "string", x |-> Text("infinity")])
    ELSE IF p.scale = 0
    THEN LET n == Decimal_to_i64(p)
         IN  IF n.some THEN JOk([kind |-> "integer", x |-> Num(n.v * Unit)]) ELSE JErr
    ELSE LET x == Decimal_to_f64(p)
         IN  IF x.some THEN JOk([kind |-> "float", x |-> Num(x.v)]) ELSE JErr

\* deserialize_any of serde_json: the visitor method a JSON text is handed to
deserialize_any(text) ==
    CASE text.kind = "string" -> [t |-> "visit_str", x |-> text.x]
      [] text.kind = "integer" /\ text.x.v >= 0 -> [t |-> "visit_u64", x |-> text.x]
      [] text.kind = "integer" /\ text.x.v < 0 -> [t |-> "visit_i64", x |-> text.x]
      [] text.kind = "float" -> [t |-> "visit_f64", x |-> text.x]

(***************************************************************************)
(* A Positive written to JSON and read back.                               *)
(***************************************************************************)
MantissaMax == DecimalMax \div Unit

\* the Positives handed to the serializer: small mantissas at every scale,
\* and the mantissas around the end of i64 and at Decimal::MAX
JsonPositives ==
    [mantissa : 0..MaxMantissa \cup {I64Max, I64Max + 1, MantissaMax - 1}, scale : 0..MaxScale]
        \cup {[mantissa |-> MantissaMax, scale |-> 0]}

Serialize ==
    \E r \in {Positive_serialize(original)} :
        /\ json.stage = "none"
        /\ json' = [stage |-> "serialized", outcome |-> r.outcome, text |-> r.text, v |-> 0]
        /\ original' = original

ReadBack ==
    \E r \in {Positive_deserialize(deserialize_any(json.text))} :
        /\ json' = [stage |-> "deserialized", outcome |-> r.outcome, text |-> json.text, v |-> r.v]
        /\ original' = original

InitJson ==
    /\ pval = 0
    /\ pres = [op |-> "default", arg |-> Num(0), before |-> 0, outcome |-> "Ok"]
    /\ strategy = NoStrategy
    /\ last = [op |-> "none", outcome |-> "Ok"]
    /\ search = NoSearch
    /\ request = NoRequest
    /\ surface = NoSurface
    /\ answer = NoAnswer
    /\ original \in JsonPositives
    /\ json = NoJson

NextJson ==
    \/ Serialize /\ UNCHANGED <<posVars, stratVars, surfVars>>
    \/ /\ json.stage = "serialized"
       /\ json.outcome = "Ok"
       /\ ReadBack
       /\ UNCHANGED <<posVars, stratVars, surfVars>>

SpecJson == InitJson /\ [][NextJson]_vars

(***************************************************************************)
(* Positive under a caller's constructions, subtractions and arithmetic    *)
(* with Decimal operands.                                                  *)
(***************************************************************************)

\* impl Add<Decimal> for Positive
Positive_add_decimal(a, d) == POk(a + d)

\* impl Add<&Decimal> for Positive
Positive_add_decimal_ref(a, d) == Positive_from_decimal(a + d)

\* impl AddAssign<Decimal> for Positive
Positive_add_assign_decimal(a, d) == POk(a + d)

\* impl MulAssign<Decimal> for Positive
Positive_mul_assign_decimal(a, d) == POk(a * d)

\* the quotient of a by a d that divides it
Quotient(a, d) == IF (a < 0) # (d < 0) THEN 0 - (Abs(a) \div Abs(d)) ELSE Abs(a) \div Abs(d)

\* impl Div<Decimal> for Positive
Positive_div_decimal(a, d) == IF d = 0 THEN PPanic(PanicDivisionByZero) ELSE POk(Quotient(a, d))

\* impl Mul<Decimal> for Positive
Positive_mul_decimal(a, d) == POk(a * d)

ConstructorPaths ==
    {"new", "new_decimal", "from_f64", "from_decimal", "from_str",
     "visit_str", "visit_i64", "visit_u64", "visit_f64"}
SubPaths == {"sub", "sub_decimal", "sub_decimal_ref", "sub_f64"}

PosAlive == ~IsPanic(pres.outcome)

\* The result r of operation op on operand arg: a success replaces the value held.
PosStep(op, arg, r) ==
    /\ PosAlive
    /\ r.outcome = "Ok" => r.v \in (-MaxAbs..MaxAbs) \cup {DecimalMax}
    /\ pres' = [op |-> op, arg |-> arg, before |-> pval, outcome |-> r.outcome]
    /\ pval' = IF r.outcome = "Ok" THEN r.v ELSE pval

New == \E x \in F64Inputs : PosStep("new", x, Positive_new(x))

NewDecimal == \E d \in DecimalInputs : PosStep("new_decimal", Num(d), Positive_new_decimal(d))

FromF64 == \E x \in F64Inputs : PosStep("from_f64", x, Positive_from_f64(x))

FromDecimal == \E d \in DecimalInputs : PosStep("from_decimal", Num(d), Positive_from_decimal(d))

FromStr == \E s \in StrInputs : PosStep("from_str", s, Positive_from_str(s))

Deserialize ==
    \E j \in JsonInputs :
        PosStep(j.t, j.x, Positive_deserialize(j))

SubPositive ==
    \E b \in 0..MaxVal : pval < DecimalMax /\ PosStep("sub", Num(b), Positive_sub(pval, b))

SubDecimal ==
    \E d \in DecimalInputs :
        pval < DecimalMax /\ PosStep("sub_decimal", Num(d), Positive_sub_decimal(pval, d))

SubDecimalRef ==
    \E d \in DecimalInputs :
        pval < DecimalMax /\ PosStep("sub_decimal_ref", Num(d), Positive_sub_decimal_ref(pval, d))

SubF64 ==
    \E x \in F64Inputs :
        pval < DecimalMax /\ PosStep("sub_f64", x, Positive_sub_f64(pval, x))

AddDecimal ==
    \E d \in DecimalInputs :
        pval < DecimalMax /\ PosStep("add_decimal", Num(d), Positive_add_decimal(pval, d))

AddDecimalRef ==
    \E d \in DecimalInputs :
        pval < DecimalMax /\ PosStep("add_decimal_ref", Num(d), Positive_add_decimal_ref(pval, d))

AddAssignDecimal ==
    \E d \in DecimalInputs :
        pval < DecimalMax /\ PosStep("add_assign_decimal", Num(d), Positive_add_assign_decimal(pval, d))

MulAssignDecimal ==
    \E d \in DecimalInputs :
        pval < DecimalMax /\ PosStep("mul_assign_decimal", Num(d), Positive_mul_assign_decimal(pval, d))

\* the quotients followed are the whole ones
DivDecimal ==
    \E d \in DecimalInputs :
        /\ pval < DecimalMax
        /\ d # 0 => Quotient(pval, d) * d = pval
        /\ PosStep("div_decimal", Num(d), Positive_div_decimal(pval, d))

MulDecimal ==
    \E d \in DecimalInputs :
        pval < DecimalMax /\ PosStep("mul_decimal", Num(d), Positive_mul_decimal(pval, d))

IdleStrategy == Straddle_new("ShortStraddle", Underlying, 0, 1, 0, 0, 0, 0, 0, 0).s

InitPositive ==
    /\ pval = 0
    /\ pres = [op |-> "default", arg |-> Num(0), before |-> 0, outcome |-> "Ok"]
    /\ strategy = IdleStrategy
    /\ last = [op |-> "new", outcome |-> "Ok"]
    /\ search = NoSearch
    /\ request = NoRequest
    /\ surface = NoSurface
    /\ answer = NoAnswer
    /\ original = NoPositive
    /\ json = NoJson

NextPositive ==
    \/ New /\ UNCHANGED <<stratVars, surfVars, jsonVars>>
    \/ NewDecimal /\ UNCHANGED <<stratVars, surfVars, jsonVars>>
    \/ FromF64 /\ UNCHANGED <<stratVars, surfVars, jsonVars>>
    \/ FromDecimal /\ UNCHANGED <<stratVars, surfVars, jsonVars>>
    \/ FromStr /\ UNCHANGED <<stratVars, surfVars, jsonVars>>
    \/ Deserialize /\ UNCHANGED <<stratVars, surfVars, jsonVars>>
    \/ SubPositive /\ UNCHANGED <<stratVars, surfVars, jsonVars>>
    \/ SubDecimal /\ UNCHANGED <<stratVars, surfVars, jsonVars>>
    \/ SubDecimalRef /\ UNCHANGED <<stratVars, surfVars, jsonVars>>
    \/ SubF64 /\ UNCHANGED <<stratVars, surfVars, jsonVars>>
    \/ AddDecimal /\ UNCHANGED <<stratVars, surfVars, jsonVars>>
    \/ AddDecimalRef /\ UNCHANGED <<stratVars, surfVars, jsonVars>>
    \/ AddAssignDecimal /\ UNCHANGED <<stratVars, surfVars, jsonVars>>
    \/ MulAssignDecimal /\ UNCHANGED <<stratVars, surfVars, jsonVars>>
    \/ DivDecimal /\ UNCHANGED <<stratVars, surfVars, jsonVars>>
    \/ MulDecimal /\ UNCHANGED <<stratVars, surfVars, jsonVars>>

SpecPositive == InitPositive /\ [][NextPositive]_vars

(***************************************************************************)
(* Claims about Positive, checked under SpecPositive.                      *)
(***************************************************************************)

(***************************************************************************)
(* Claims about the strategy's positions and its break-even cache.         *)
(***************************************************************************)

\* The position p has the (option style, side, strike) signature of the slot.
SameSignature(slot, p) ==
    /\ slot.option_style = p.option_style
    /\ slot.side = p.side
    /\ slot.strike_price = p.strike_price

\* C1: after every successful modify_position on a ShortStraddle or a
\* LongStraddle, get_break_even_points returns exactly the points that
\* update_break_even_points would compute from the current legs: the cached
\* list is never stale with respect to the legs.
C1_BreakEvenCacheFresh ==
    (last.op = "modify_position" /\ last.outcome = "Ok"
        /\ update_break_even_points(strategy).outcome = "Ok")
        => get_break_even_points(strategy)
               = update_break_even_points(strategy).s.break_even_points

\* C2: the legs change only through operations that re-validate: from a
\* strategy for which validate() is true, a successful add_position or
\* modify_position leaves a strategy for which validate() is still true.
C2_ValidatePreserved ==
    [][(/\ validate(strategy)
        /\ last'.op \in {"add_position", "modify_position"}
        /\ last'.outcome = "Ok") => validate(strategy')]_vars

\* C3: add_position returns an error and stores nothing when the position
\* does not fit any slot of the strategy's shape (wrong side or wrong style);
\* it succeeds only by placing the position into the slot that matches it.
C3_AddPositionRejectsWrongShape ==
    [][\A p \in PositionInputs :
          AddPosition(p) =>
              IF p.side = StrategySide(strategy.kind)
              THEN last'.outcome = "Ok" =>
                       strategy' = IF p.option_style = "Call"
                                   THEN [strategy EXCEPT !.call = p]
                                   ELSE [strategy EXCEPT !.put = p]
              ELSE last'.outcome = "Err" /\ strategy' = strategy]_vars

\* C4: modify_position(p) returns an error and changes nothing unless some
\* slot has exactly p's (option style, side, strike) signature; when it
\* succeeds it replaces that slot and no other.
C4_ModifyPositionNeedsMatchingSlot ==
    [][\A p \in PositionInputs :
          ModifyPosition(p) =>
              /\ (~SameSignature(strategy.call, p) /\ ~SameSignature(strategy.put, p))
                     => (last'.outcome = "Err" /\ strategy' = strategy)
              /\ (last'.outcome = "Ok" /\ SameSignature(strategy.call, p))
                     => strategy' = [strategy EXCEPT !.call = p]
              /\ (last'.outcome = "Ok" /\ SameSignature(strategy.put, p))
                     => strategy' = [strategy EXCEPT !.put = p]
              /\ last'.outcome = "Err" => strategy' = strategy]_vars


(***************************************************************************)
(* Claims about the optimizer.                                             *)
(***************************************************************************)

\* The rows of the searched chain, by position in strike order
SearchRows == 1..Len(search.chain.options)

\* What the filter makes of row i for the strategy the search started from
FilterOf(i) ==
    filter_combinations(search.before, search.chain, search.side, search.chain.options[i])

\* The candidate built from row i and its score under the criteria
CandidateOf(i) == create_strategy(search.before, search.chain, search.chain.options[i]).s
ScoreOf(i) == current_value(CandidateOf(i), search.criteria)

\* The candidates that survive the filter
Survivors == {i \in SearchRows : FilterOf(i) = "keep"}

\* The candidates whose construction or scoring fails
FailingCandidates ==
    {i \in SearchRows :
        \/ FilterOf(i) \notin {"keep", "drop"}
        \/ FilterOf(i) = "keep" /\ ScoreOf(i).outcome # "Ok"}

\* The candidates that are built, pass the filter and are scored
ValidCandidates == Survivors \ FailingCandidates

\* The score of candidate j is at most the score of candidate i.
ScoreAtMost(j, i) == ScoreOf(j).n * ScoreOf(i).d <= ScoreOf(i).n * ScoreOf(j).d

\* C7: no public operation of a strategy, constructor or optimizer ends in a
\* panic; the only abort reachable is the Positive subtraction guard
\* "Resulting value must be positive".
C7_NoAbortButSubtractionGuard ==
    IsPanic(last.outcome) => last.outcome = PanicResultingValue

\* C8: after find_optimal, self is the candidate with the highest score
\* (profit_ratio for Ratio, profit_area for Area) among the candidates that
\* survive the filter, and among candidates of equal best score the first one
\* in the chain's strike order.
C8_SelfIsFirstBest ==
    (last.op = "find_optimal" /\ last.outcome = "Ok" /\ Survivors # {})
        => \E i \in Survivors :
               /\ strategy = CandidateOf(i)
               /\ \A j \in Survivors :
                      /\ ScoreAtMost(j, i)
                      /\ ScoreAtMost(i, j) => i <= j

\* C8, witness: find_optimal returned with two surviving candidates of equal
\* score and self is the first of them.
C8_TieKeepsFirst ==
    /\ last.op = "find_optimal"
    /\ last.outcome = "Ok"
    /\ \E i \in Survivors, j \in Survivors :
          /\ i < j
          /\ ScoreAtMost(i, j) /\ ScoreAtMost(j, i)
          /\ strategy = CandidateOf(i)

\* C9: during find_optimal a candidate whose construction or scoring fails is
\* skipped and the search goes on with the remaining candidates: the call does
\* not abort, and self ends as a best candidate among the valid ones.
C9_FailingCandidateSkipped ==
    (last.op = "find_optimal" /\ FailingCandidates # {})
        => /\ ~IsPanic(last.outcome)
           /\ ValidCandidates # {}
                  => \E i \in ValidCandidates :
                         /\ strategy = CandidateOf(i)
                         /\ \A j \in ValidCandidates : ScoreAtMost(j, i)

\* C10: the optimizer reports an error to the caller exactly when no candidate
\* was valid.
C10_ErrorExactlyWhenNoValidCandidate ==
    (last.op = "find_optimal" /\ ~IsPanic(last.outcome))
        => (last.outcome = "Err" <=> ValidCandidates = {})


\* C11: every row accepted by filter_combinations holds, strictly positive,
\* the quote create_strategy reads for each leg: for the short straddle the
\* call's bid and the put's bid.
C11_AcceptedRowsHaveTheQuotesRead ==
    last.op = "find_optimal"
        => \A i \in Survivors :
               /\ search.chain.options[i].call_bid.some
               /\ search.chain.options[i].call_bid.v > 0
               /\ search.chain.options[i].put_bid.some
               /\ search.chain.options[i].put_bid.v > 0

\* The search in which every candidate is built from the chain's rows and the
\* strategy as it was before the search, never from the strategy in progress.
RECURSIVE SnapshotSearch(_, _, _)
SnapshotSearch(i, best, best_value) ==
    IF i > Len(search.chain.options) THEN best
    ELSE IF i \in Survivors
                /\ (best_value = DecimalMin
                        \/ ScoreOf(i).n * best_value.d > best_value.n * ScoreOf(i).d)
    THEN SnapshotSearch(i + 1, CandidateOf(i), ScoreOf(i))
    ELSE SnapshotSearch(i + 1, best, best_value)

SatisfiesSide(strike) ==
    LET S == get_underlying_price(search.before)
        atm == atm_strike(search.chain)
    IN  CASE search.side.t = "All" -> TRUE
          [] search.side.t = "Upper" -> strike >= S
          [] search.side.t = "Lower" -> strike <= S
          [] search.side.t = "Range" -> search.side.a <= strike /\ strike <= search.side.b
          [] search.side.t = "Center" -> atm.outcome = "Ok" /\ Abs(strike - atm.v) <= 1

\* C13: after find_optimal with a side constraint returns, every leg strike of
\* the resulting strategy satisfies the constraint (Upper: strike >= underlying
\* price, Lower: strike <= underlying price, Range(a, b): a <= strike <= b,
\* Center: within one tick of the at-the-money strike).
C13_ResultSatisfiesSide ==
    (last.op = "find_optimal" /\ last.outcome = "Ok")
        => /\ SatisfiesSide(strategy.call.strike_price)
           /\ SatisfiesSide(strategy.put.strike_price)


\* C14: after find_optimal returns, the strategy satisfies validate().
C14_ResultIsValid ==
    (last.op = "find_optimal" /\ last.outcome = "Ok") => validate(strategy)

(***************************************************************************)
(* Constructors and the profit at a price                                  *)
(***************************************************************************)

\* Exactly two entries, one Call and one Put, both on the side of the
\* strategy, with equal strikes and equal expirations.
StraddleShaped(kind, positions) ==
    /\ Len(positions) = 2
    /\ \E i \in 1..2, j \in 1..2 :
          /\ i # j
          /\ positions[i].option_style = "Call"
          /\ positions[j].option_style = "Put"
    /\ \A i \in 1..2 : positions[i].side = StrategySide(kind)
    /\ positions[1].strike_price = positions[2].strike_price
    /\ positions[1].expiration_date = positions[2].expiration_date

\* C15: get_strategy(positions) of a straddle returns Ok only when positions
\* holds exactly two entries, one Call and one Put, both on the strategy's
\* side, with equal strikes and equal expirations; every other input is
\* rejected with an error.
C15_GetStrategyAcceptsOnlyStraddles ==
    last.op = "get_strategy"
        => /\ last.outcome = "Ok" => StraddleShaped(request.kind, request.positions)
           /\ ~StraddleShaped(request.kind, request.positions) => last.outcome = "Err"

\* get_strategy has returned a straddle from a slice that holds the Put first.
C15_AcceptedPutFirst ==
    /\ last.op = "get_strategy" /\ last.outcome = "Ok"
    /\ request.positions[1].option_style = "Put"
    /\ strategy.call = request.positions[2]
    /\ strategy.put = request.positions[1]

\* C16: every strategy a named constructor new(...) returns satisfies
\* validate(); arguments that break the strategy's invariants (mis-ordered
\* strikes) end in a panic or an error, never in a returned strategy.
C16_NewReturnsValid ==
    (last.op = "new" /\ last.outcome = "Ok")
        => IF strategy.kind = "LongButterflySpread"
           THEN LongButterflySpread_validate(strategy)
           ELSE validate(strategy)

\* The styles, sides and expirations a long butterfly of calls requires.
ButterflyLegsAsRequired(s) ==
    /\ \A leg \in {s.long_call_low, s.short_calls, s.long_call_high} :
          leg.option_style = "Call"
    /\ s.long_call_low.side = "Long"
    /\ s.short_calls.side = "Short"
    /\ s.long_call_high.side = "Long"
    /\ s.long_call_low.expiration_date = s.short_calls.expiration_date
    /\ s.short_calls.expiration_date = s.long_call_high.expiration_date

\* C17: validate() of a butterfly spread returns true only if every leg is
\* valid, the strikes are strictly ordered low < middle < high, the wings have
\* equal quantity, the body has twice the wing quantity, and the legs have the
\* required styles, sides and matching expirations.
C17_ValidateChecksTheWholeShape ==
    (Constructed /\ strategy.kind = "LongButterflySpread"
         /\ LongButterflySpread_validate(strategy))
        => /\ \A leg \in {strategy.long_call_low, strategy.short_calls,
                           strategy.long_call_high} : Position_validate(leg)
           /\ strategy.long_call_low.strike_price < strategy.short_calls.strike_price
           /\ strategy.short_calls.strike_price < strategy.long_call_high.strike_price
           /\ strategy.long_call_low.quantity = strategy.long_call_high.quantity
           /\ strategy.short_calls.quantity = 2 * strategy.long_call_low.quantity
           /\ ButterflyLegsAsRequired(strategy)

\* The sum of pnl_at_expiration(price) over a list of legs.
RECURSIVE SumOfLegs(_, _)
SumOfLegs(legs, price) ==
    IF legs = <<>> THEN 0
    ELSE pnl_at_expiration(Head(legs), price) + SumOfLegs(Tail(legs), price)

\* C18: for every strategy and every price p, calculate_profit_at(p) equals
\* the sum over all of the strategy's legs of the leg's pnl_at_expiration(p).
C18_ProfitIsSumOfLegs ==
    last.op = "calculate_profit_at"
        => request.profit = SumOfLegs(get_positions(strategy), request.price)

\* The profit of a butterfly was asked above its upper wing, where each of the
\* three legs pays.
C18_ButterflyAboveUpperWing ==
    /\ last.op = "calculate_profit_at"
    /\ strategy.kind = "LongButterflySpread"
    /\ LongButterflySpread_validate(strategy)
    /\ request.price > strategy.long_call_high.strike_price
    /\ \A i \in 1..3 : pnl_at_expiration(get_positions(strategy)[i], request.price) # 0

\* C19: for every strategy with two break-even points b1 < b2, the profit at
\* b1 and the profit at b2 are each within 0.01 (one hundredth) of zero.
C19_ProfitAtBreakEvenIsZero ==
    (/\ Constructed
     /\ Len(get_break_even_points(strategy)) = 2
     /\ get_break_even_points(strategy)[1] # get_break_even_points(strategy)[2])
        => \A i \in 1..2 :
               Abs(calculate_profit_at(strategy, get_break_even_points(strategy)[i])) <= 1

\* C20: every butterfly spread its constructor returns has exactly two
\* break-even points b1 < b2, strictly inside the wings and around the middle
\* strike: low_strike < b1 < middle_strike < b2 < high_strike.
C20_TwoBreakEvensInsideTheWings ==
    (last.op = "new" /\ last.outcome = "Ok" /\ strategy.kind = "LongButterflySpread")
        => /\ Len(get_break_even_points(strategy)) = 2
           /\ strategy.long_call_low.strike_price < get_break_even_points(strategy)[1]
           /\ get_break_even_points(strategy)[1] < strategy.short_calls.strike_price
           /\ strategy.short_calls.strike_price < get_break_even_points(strategy)[2]
           /\ get_break_even_points(strategy)[2] < strategy.long_call_high.strike_price

\* C21: for every valid LongButterflySpread and every price p,
\* -max_loss() <= calculate_profit_at(p) <= max_profit(); max_profit() is the
\* profit at the middle strike and -max_loss() is the profit at the prices
\* beyond the losing wing.
C21_ProfitBetweenMaxLossAndMaxProfit ==
    (/\ Constructed
     /\ strategy.kind = "LongButterflySpread"
     /\ LongButterflySpread_validate(strategy)
     /\ LongButterflySpread_max_profit(strategy).outcome = "Ok"
     /\ LongButterflySpread_max_loss(strategy).outcome = "Ok")
        => LET high == LongButterflySpread_max_profit(strategy).v
               low == 0 - LongButterflySpread_max_loss(strategy).v
               left == calculate_profit_at(strategy, strategy.long_call_low.strike_price)
               right == calculate_profit_at(strategy, strategy.long_call_high.strike_price)
           IN  /\ \A p \in PriceInputs :
                      low <= calculate_profit_at(strategy, p)
                          /\ calculate_profit_at(strategy, p) <= high
               /\ calculate_profit_at(strategy, strategy.short_calls.strike_price) = high
               /\ \A p \in PriceInputs :
                      \/ /\ left <= right
                         /\ p <= strategy.long_call_low.strike_price
                      \/ /\ right <= left
                         /\ p >= strategy.long_call_high.strike_price
                      => calculate_profit_at(strategy, p) = low

\* The sum of the probabilities of a list of ranges, in thousandths.
RECURSIVE SumOfProbabilities(_)
SumOfProbabilities(ranges) ==
    IF ranges = <<>> THEN 0
    ELSE Head(ranges).probability + SumOfProbabilities(Tail(ranges))

\* C22: for every strategy the probabilities of its declared profit ranges
\* plus those of its declared loss ranges sum to a value in (0.99, 1.01).
C22_RangesCoverThePriceAxis ==
    (/\ Constructed
     /\ strategy.kind \in {"ShortStraddle", "LongButterflySpread"}
     /\ get_profit_ranges(strategy).outcome = "Ok"
     /\ get_loss_ranges(strategy).outcome = "Ok")
        => LET total == SumOfProbabilities(get_profit_ranges(strategy).ranges)
                            + SumOfProbabilities(get_loss_ranges(strategy).ranges)
           IN  990 < total /\ total < 1010

\* The slots of a straddle whose leg has the given style, side and strike.
MatchingSlots(s, strike, option_style, side) ==
    {slot \in {"call", "put"} :
        /\ s[slot].option_style = option_style
        /\ s[slot].side = side
        /\ s[slot].strike_price = strike}

FailingCells(f, params) ==
    IF params.shape = "D3" /\ params.x_steps > 0 /\ params.y_steps > 0
    THEN {t \in grid(params) : evaluate(f, t).outcome = "Err"}
    ELSE {}

\* C24: a parametric construct whose function fails at some grid point returns
\* an error and no surface, whatever the other grid points evaluate to.
C24_ParametricConstructIsAllOrNothing ==
    (answer.op = "construct_parametric" /\ FailingCells(answer.f, answer.params) # {})
        => (answer.outcome = "Err" /\ surface = NoSurface)

\* C24, its case: the function fails at some grid points and succeeds at
\* others, and the call returns an error.
C24_SomeCellsFailOthersSucceed ==
    /\ answer.op = "construct_parametric"
    /\ FailingCells(answer.f, answer.params) # {}
    /\ FailingCells(answer.f, answer.params) # grid(answer.params)
    /\ answer.outcome = "Err"
    /\ surface = NoSurface

InRange(s, xy) ==
    /\ s.x_range[1] <= xy.x /\ xy.x <= s.x_range[2]
    /\ s.y_range[1] <= xy.y /\ xy.y <= s.y_range[2]

\* the four points nearest to xy lie at one (x, y); being members of a set,
\* they differ in z
CoincidentQuadrilateral(s, xy) ==
    LET closest == closest_points(s, xy)
    IN  \A k \in 2..4 : closest[k].x = closest[1].x /\ closest[k].y = closest[1].y

\* C25: a bilinear interpolation whose four nearest points all lie at one
\* (x, y) with different z returns the Invalid quadrilateral error, not a z.
C25_CoincidentQuadrilateralIsRejected ==
    (answer.op = "bilinear_interpolate" /\ Cardinality(surface.points) >= 4
     /\ InRange(surface, answer.xy) /\ CoincidentQuadrilateral(surface, answer.xy))
        => (answer.outcome = "Err" /\ answer.reason = "Invalid quadrilateral")

StoredAt(s, xy) == {p \in s.points : p.x = xy.x /\ p.y = xy.y}

\* C26, as stated: on a surface of four points or more, a bilinear
\* interpolation at the (x, y) of any stored point succeeds with the z of
\* that point.
C26_ExactAtEveryStoredPoint ==
    (answer.op = "bilinear_interpolate" /\ Cardinality(surface.points) >= 4)
        => \A p \in StoredAt(surface, answer.xy) :
               answer.outcome = "Ok" /\ answer.z[1] = p.z * answer.z[2]

\* C26: on a surface of four points or more, a bilinear interpolation at the
\* (x, y) of a stored point that shares it with no other stored point
\* succeeds with the z of that point.
C26_ExactAtUnsharedStoredPoint ==
    (answer.op = "bilinear_interpolate" /\ Cardinality(surface.points) >= 4
     /\ Cardinality(StoredAt(surface, answer.xy)) = 1)
        => \A p \in StoredAt(surface, answer.xy) :
               answer.outcome = "Ok" /\ answer.z[1] = p.z * answer.z[2]

\* C26, its case: the far corner of a surface that stores a second point at
\* the origin is interpolated, and its z comes back.
C26_CornerReturned ==
    /\ answer.op = "bilinear_interpolate"
    /\ Cardinality(surface.points) >= 4
    /\ Cardinality(StoredAt(surface, Point2D_new(0, 0))) = 2
    /\ answer.xy = Point2D_new(MaxCoord, MaxCoord)
    /\ StoredAt(surface, answer.xy) = {Point3D_new(MaxCoord, MaxCoord, 3)}
    /\ answer.outcome = "Ok"
    /\ answer.z = <<3, 1>>

\* the x ranges have a common point, and so have the y ranges
RangesIntersect(surfaces) ==
    /\ SetMax({surfaces[i].x_range[1] : i \in 1..Len(surfaces)}) <= SetMin({surfaces[i].x_range[2] : i \in 1..Len(surfaces)})
    /\ SetMax({surfaces[i].y_range[1] : i \in 1..Len(surfaces)}) <= SetMin({surfaces[i].y_range[2] : i \in 1..Len(surfaces)})

\* C27: a merge of two or more surfaces fails exactly when their x ranges or
\* their y ranges have no common point.
C27_MergeFailsOnlyOnEmptyIntersection ==
    (answer.op = "merge" /\ Len(answer.surfaces) >= 2)
        => (answer.outcome = "Err" <=> ~RangesIntersect(answer.surfaces))

(***************************************************************************)
(* Claims about Positive in JSON, checked under SpecJson.                  *)
(***************************************************************************)

\* C28: every Positive is written to JSON without an error, and reading the
\* text back succeeds with a Positive equal to the one written.
C28_RoundTripRestoresThePositive ==
    /\ json.stage # "none" => json.outcome = "Ok"
    /\ json.stage = "deserialized" => json.v = Decimal_value(original)

\* C29: whatever sequence of constructions and operations a caller performs,
\* the Positive never holds a negative value.
C29_ValueStaysNonNegative == pval >= 0

(***************************************************************************)
(* Claims about the optimizer of CallButterfly, checked under              *)
(* SpecCallButterfly.                                                      *)
(***************************************************************************)

\* The index pairs (short_index, long_itm_index) the loops of find_optimal
\* are written to visit on the chain searched, counted from zero.
ButterflyCombinations ==
    {c \in (0..MaxChainRows) \X (0..MaxChainRows) :
        /\ 1 <= c[1] /\ c[1] < Len(search.chain.options) - 1
        /\ c[2] < c[1]}

\* The combination passes the side filter, has its OTM wing inside the chain
\* and passes the price filter.
CombinationSurvives(c) ==
    LET options == search.chain.options
        long_otm_index == c[1] + (c[1] - c[2])
    IN  /\ CallButterfly_is_valid_short_option(search.before, options[c[1] + 1], search.side)
        /\ long_otm_index < Len(options)
        /\ CallButterfly_are_valid_prices(options[c[2] + 1], options[long_otm_index + 1], options[c[1] + 1])

NoCombinationSurvives == \A c \in ButterflyCombinations : ~CombinationSurvives(c)

\* C30: when no row combination of the chain survives the optimizer's filters
\* (an empty chain and one of too few rows included), find_optimal returns and
\* leaves self exactly as it was before the call, legs and break-even points.
C30_NoSurvivorLeavesSelfUnchanged ==
    (last.op = "find_optimal" /\ NoCombinationSurvives)
        => (last.outcome = "Ok" /\ strategy = search.before)

\* C5: every subtraction on a Positive whose mathematical result would be
\* negative fails loudly (panics) on every subtraction path, and no path leaves a
\* Positive holding a negative value.
C5_SubtractionFailsLoudly ==
    (pres.op \in SubPaths /\ pres.arg.k = "num" /\ pres.before - pres.arg.v < 0)
        => (IsPanic(pres.outcome) /\ pval >= 0)

\* C6: every construction path accepts a finite value exactly when it is >= 0:
\* zero is accepted and every negative is rejected, so no constructed Positive
\* holds a negative value.
C6_ConstructorsAcceptExactlyNonNegative ==
    (pres.op \in ConstructorPaths /\ pres.arg.k = "num")
        => /\ (pres.outcome = "Ok") <=> (pres.arg.v >= 0)
           /\ pres.outcome = "Ok" => pval = pres.arg.v

====
